---- MODULE Spec2Model ----
(***************************************************************************)
(* Model of gbt-be-template: the account store (GORM over PostgreSQL),     *)
(* the account and authentication services, the request gates (JWTAuth,   *)
(* RequireAdmin) and the user handlers, as routed by Router.SetupRoutes.  *)
(*                                                                         *)
(* Every record is written with its fields in the order TLC keeps them in, *)
(* so that a record value is in normal form from its construction on.     *)
(***************************************************************************)
EXTENDS Integers, Sequences, FiniteSets, TLC

VARIABLES store, tokens, now, last, procs, srv

vars == <<store, tokens, now, last, procs, srv>>

(***************************************************************************)
(* Bounds of the model.                                                    *)
(***************************************************************************)
MaxUsers == 2       \* rows the users table may hold
MaxTime == 3        \* last instant of the clock
MaxTokens == 1      \* issued tokens a client still holds
TokenTTL == 1       \* cfg.JWT.Expiry, in clock ticks after the tick of issue
MaxProcs == 3       \* service calls that run concurrently (SpecConc)
MaxInFlight == 2    \* requests the HTTP server is serving at once (SpecShutdown)
ShutdownTimeout == 2 \* the 30 s of Server.Shutdown's context, in ticks

Emails == {"a@x", "b@x"}
Usernames == {"ann", "bob"}
UnknownEmail == "z@x"
Secret == "secret"  \* cfg.JWT.Secret

(***************************************************************************)
(* models.User: a row of the users table.  `deleted` is the deletion      *)
(* marker (deleted_at IS NOT NULL); last_login = 0 is NULL.               *)
(***************************************************************************)
NoUser == [id |-> 0, email |-> "", username |-> "", password |-> "",
           first_name |-> "", last_name |-> "", is_active |-> FALSE,
           is_admin |-> FALSE, last_login |-> 0, deleted |-> FALSE]

\* bcrypt.GenerateFromPassword / bcrypt.CompareHashAndPassword
HashPassword(pw) == <<"bcrypt", pw>>

CompareHashAndPassword(hash, pw) == hash = <<"bcrypt", pw>>

(***************************************************************************)
(* The account store: userRepository over GORM.  The store is the         *)
(* sequence of rows of the users table, soft-deleted rows included; the   *)
(* id of a row is its position.                                           *)
(***************************************************************************)
\* GORM's soft-delete scope: every query of the model adds deleted_at IS NULL
Visible(s) == {i \in DOMAIN s : ~s[i].deleted}

\* the table with uni_users_username alone, uni_users_email missing
UniqueUsernameOnly(s, id, row) ==
    \A j \in DOMAIN s : j # id => s[j].username # row.username

\* uni_users_email / uni_users_username: UNIQUE over every row of the table
UniqueOK(s, id, row) ==
    \A j \in DOMAIN s :
        j # id => (s[j].email # row.email /\ s[j].username # row.username)

\* userRepository.GetByID: nil when no non-deleted row has the id
GetByID(s, id) == IF id \in Visible(s) THEN s[id] ELSE NoUser

\* userRepository.GetByEmail
GetByEmail(s, email) ==
    IF \E i \in Visible(s) : s[i].email = email
    THEN s[CHOOSE i \in Visible(s) : s[i].email = email]
    ELSE NoUser

\* userRepository.GetByUsername
GetByUsername(s, username) ==
    IF \E i \in Visible(s) : s[i].username = username
    THEN s[CHOOSE i \in Visible(s) : s[i].username = username]
    ELSE NoUser

\* userRepository.ExistsByEmail / ExistsByUsername
ExistsByEmail(s, email) == \E i \in Visible(s) : s[i].email = email

ExistsByUsername(s, username) == \E i \in Visible(s) : s[i].username = username

\* userRepository.Create: INSERT; the store assigns the id
RepoCreate(s, user) ==
    IF UniqueOK(s, 0, user)
    THEN [store |-> Append(s, [user EXCEPT !.id = Len(s) + 1]),
          id |-> Len(s) + 1, err |-> ""]
    ELSE [store |-> s, id |-> 0, err |-> "unique-violation"]

\* userRepository.Update: GORM Save, an UPDATE of every column WHERE id = ?
\* AND deleted_at IS NULL; when that touches no row, Save falls back to
\* INSERT ... ON CONFLICT (id) DO UPDATE of every column
RepoUpdate(s, user) ==
    IF user.id \in DOMAIN s
    THEN IF UniqueOK(s, user.id, user)
         THEN [store |-> [s EXCEPT ![user.id] = user], err |-> ""]
         ELSE [store |-> s, err |-> "unique-violation"]
    ELSE [store |-> s, err |-> ""]

\* userRepository.Delete: soft delete, UPDATE SET deleted_at WHERE id = ?
\* AND deleted_at IS NULL
RepoDelete(s, id) ==
    IF id \in Visible(s) THEN [s EXCEPT ![id].deleted = TRUE] ELSE s

\* userRepository.UpdateLastLogin
RepoUpdateLastLogin(s, id, t) ==
    IF id \in Visible(s) THEN [s EXCEPT ![id].last_login = t] ELSE s

(***************************************************************************)
(* Token codec (utils.GenerateJWT / utils.ValidateJWT).  A token is its   *)
(* claims plus the key that signed it.                                    *)
(***************************************************************************)
NoToken == [email |-> "", uid |-> 0, admin |-> FALSE, exp |-> 0, sig |-> ""]

GenerateJWT(userID, email, isAdmin, secret, ttl, t) ==
    [email |-> email, uid |-> userID, admin |-> isAdmin, exp |-> t + ttl,
     sig |-> secret]

NoClaims == [UserID |-> 0, Email |-> "", IsAdmin |-> FALSE]

\* parses the token: an error unless the signature matches the secret and
\* the token has not expired, else the claims it carries
ValidateJWT(tok, secret, t) ==
    IF tok.sig = secret /\ ~(t > tok.exp)
    THEN [ok |-> TRUE,
          claims |-> [UserID |-> tok.uid, Email |-> tok.email, IsAdmin |-> tok.admin]]
    ELSE [ok |-> FALSE, claims |-> NoClaims]

(***************************************************************************)
(* Request payloads.  An optional field of UserUpdateRequest (a pointer)  *)
(* is <<>> when absent and <<v>> when present.  A body is the decoded    *)
(* JSON object, or BadJSON when it does not decode.                       *)
(***************************************************************************)
BadJSON == [json |-> FALSE]

\* json.Decode into models.UserCreateRequest: only its five fields are read
DecodeCreate(body) ==
    [Email |-> body.email, Username |-> body.username,
     Password |-> body.password, FirstName |-> body.first_name,
     LastName |-> body.last_name]

\* validator.Struct on UserCreateRequest: every field is required
ValidCreate(req) ==
    /\ req.Email # "" /\ req.Username # "" /\ req.Password # ""
    /\ req.FirstName # "" /\ req.LastName # ""

\* json.Decode into models.UserLoginRequest
DecodeLogin(body) == [Email |-> body.email, Password |-> body.password]

\* validator.Struct on UserLoginRequest
ValidLogin(req) == req.Email # "" /\ req.Password # ""

\* json.Decode into models.UserUpdateRequest: a key the struct does not
\* declare (is_admin) is dropped
DecodeUpdate(body) ==
    [Email |-> body.email, Username |-> body.username,
     FirstName |-> body.first_name, LastName |-> body.last_name,
     IsActive |-> body.is_active]

\* validator.Struct on UserUpdateRequest: omitempty, then min=1 / min=3
ValidUpdate(req) ==
    /\ req.Email # <<"">> /\ req.Username # <<"">>
    /\ req.FirstName # <<"">> /\ req.LastName # <<"">>

\* ToResponse that copies the password digest into the representation
ToResponseWithPassword(u) ==
    [id |-> u.id, email |-> u.email, username |-> u.username,
     password |-> u.password, first_name |-> u.first_name,
     last_name |-> u.last_name, is_active |-> u.is_active,
     is_admin |-> u.is_admin, last_login |-> u.last_login]

\* User.ToResponse: the representation returned to callers (no password)
ToResponse(u) ==
    [id |-> u.id, email |-> u.email, username |-> u.username,
     first_name |-> u.first_name, last_name |-> u.last_name,
     is_active |-> u.is_active, is_admin |-> u.is_admin,
     last_login |-> u.last_login]

NoResponse == ToResponse(NoUser)

(***************************************************************************)
(* Authentication service.                                                 *)
(***************************************************************************)
\* authService.GenerateToken
GenerateToken(userID, email, isAdmin, t) ==
    GenerateJWT(userID, email, isAdmin, Secret, TokenTTL, t)

\* ValidateToken that returns an account whatever its active flag
ValidateTokenAnyStatus(s, tok, t) ==
    IF ~ValidateJWT(tok, Secret, t).ok
    THEN [user |-> NoUser, err |-> "invalid token"]
    ELSE LET user == GetByID(s, ValidateJWT(tok, Secret, t).claims.UserID)
         IN IF user = NoUser THEN [user |-> NoUser, err |-> "user not found"]
            ELSE [user |-> user, err |-> ""]

\* authService.ValidateToken: parse, then re-fetch the account
ValidateToken(s, tok, t) ==
    IF ~ValidateJWT(tok, Secret, t).ok
    THEN [user |-> NoUser, err |-> "invalid token"]
    ELSE LET user == GetByID(s, ValidateJWT(tok, Secret, t).claims.UserID)
         IN IF user = NoUser THEN [user |-> NoUser, err |-> "user not found"]
            ELSE IF ~user.is_active
                 THEN [user |-> NoUser, err |-> "user account is deactivated"]
                 ELSE [user |-> user, err |-> ""]

\* F applied to the value of e, with e evaluated once (a local variable)
Bind(e, F(_)) == CHOOSE v \in {F(x) : x \in {e}} : TRUE

\* utils.RefreshJWT: parses the token and issues its claims again, expiring
\* ttl from now
RefreshJWT(tok, secret, ttl, t) ==
    Bind(ValidateJWT(tok, secret, t), LAMBDA v :
       IF ~v.ok THEN [err |-> "invalid token", token |-> NoToken]
       ELSE [err |-> "",
             token |-> GenerateJWT(v.claims.UserID, v.claims.Email,
                                   v.claims.IsAdmin, secret, ttl, t)])

\* RefreshToken that refuses the tokens ValidateToken refuses
RefreshTokenChecked(s, tok, t) ==
    IF ValidateToken(s, tok, t).err # ""
    THEN [err |-> "failed to refresh token", token |-> NoToken]
    ELSE RefreshJWT(tok, Secret, TokenTTL, t)

\* authService.RefreshToken; s is the store behind s.userRepo
RefreshToken(s, tok, t) ==
    Bind(RefreshJWT(tok, Secret, TokenTTL, t), LAMBDA r :
       IF r.err # "" THEN [err |-> "failed to refresh token", token |-> NoToken]
       ELSE r)

(***************************************************************************)
(* Account service (userService).  Every operation returns the error      *)
(* message ("" for nil), the store it leaves, and what it hands back.     *)
(***************************************************************************)
SvcResult(err, s, user, tok) ==
    [store |-> s, user |-> user, err |-> err, token |-> tok]

\* NewUser without IsActive: true, so that the flag keeps its zero value
NewUserInactive(req) ==
    [id |-> 0, email |-> req.Email, username |-> req.Username,
     password |-> HashPassword(req.Password), first_name |-> req.FirstName,
     last_name |-> req.LastName, is_active |-> FALSE, is_admin |-> FALSE,
     last_login |-> 0, deleted |-> FALSE]

\* the models.User that userService.Create builds from the request
NewUser(req) ==
    [id |-> 0, email |-> req.Email, username |-> req.Username,
     password |-> HashPassword(req.Password), first_name |-> req.FirstName,
     last_name |-> req.LastName, is_active |-> TRUE, is_admin |-> FALSE,
     last_login |-> 0, deleted |-> FALSE]

\* userService.Create with the username checked before the email
SvcCreateUsernameFirst(s, req) ==
    IF ExistsByUsername(s, req.Username)
    THEN SvcResult("username is already taken", s, NoResponse, NoToken)
    ELSE IF ExistsByEmail(s, req.Email)
    THEN SvcResult("user with this email already exists", s, NoResponse, NoToken)
    ELSE Bind(RepoCreate(s, NewUser(req)), LAMBDA r :
            IF r.err # ""
            THEN SvcResult("failed to create user", s, NoResponse, NoToken)
            ELSE SvcResult("", r.store, ToResponse(r.store[r.id]), NoToken))

\* userService.Create
SvcCreate(s, req) ==
    IF ExistsByEmail(s, req.Email)
    THEN SvcResult("user with this email already exists", s, NoResponse, NoToken)
    ELSE IF ExistsByUsername(s, req.Username)
    THEN SvcResult("username is already taken", s, NoResponse, NoToken)
    ELSE Bind(RepoCreate(s, NewUser(req)), LAMBDA r :
            IF r.err # ""
            THEN SvcResult("failed to create user", s, NoResponse, NoToken)
            ELSE SvcResult("", r.store, ToResponse(r.store[r.id]), NoToken))

\* userService.GetByID
SvcGetByID(s, id) ==
    Bind(GetByID(s, id), LAMBDA user :
       IF user = NoUser THEN SvcResult("user not found", s, NoResponse, NoToken)
       ELSE SvcResult("", s, ToResponse(user), NoToken))

\* userService.GetByEmail
SvcGetByEmail(s, email) ==
    Bind(GetByEmail(s, email), LAMBDA user :
       IF user = NoUser THEN SvcResult("user not found", s, NoResponse, NoToken)
       ELSE SvcResult("", s, ToResponse(user), NoToken))

\* MergeUpdate that writes the zero value for every string field the
\* request leaves out
MergeUpdateNulling(user, req) ==
    [user EXCEPT
       !.email = IF req.Email # <<>> THEN req.Email[1] ELSE "",
       !.username = IF req.Username # <<>> THEN req.Username[1] ELSE "",
       !.first_name = IF req.FirstName # <<>> THEN req.FirstName[1] ELSE "",
       !.last_name = IF req.LastName # <<>> THEN req.LastName[1] ELSE "",
       !.is_active = IF req.IsActive # <<>> THEN req.IsActive[1] ELSE @]

\* a merge that writes the request's is_active into the admin flag as well
MergeUpdateAdmin(user, req) ==
    [user EXCEPT
       !.email = IF req.Email # <<>> THEN req.Email[1] ELSE @,
       !.username = IF req.Username # <<>> THEN req.Username[1] ELSE @,
       !.first_name = IF req.FirstName # <<>> THEN req.FirstName[1] ELSE @,
       !.last_name = IF req.LastName # <<>> THEN req.LastName[1] ELSE @,
       !.is_active = IF req.IsActive # <<>> THEN req.IsActive[1] ELSE @,
       !.is_admin = IF req.IsActive # <<>> THEN req.IsActive[1] ELSE @]

\* the field-by-field merge of userService.Update, after the uniqueness checks
MergeUpdate(user, req) ==
    [user EXCEPT
       !.email = IF req.Email # <<>> THEN req.Email[1] ELSE @,
       !.username = IF req.Username # <<>> THEN req.Username[1] ELSE @,
       !.first_name = IF req.FirstName # <<>> THEN req.FirstName[1] ELSE @,
       !.last_name = IF req.LastName # <<>> THEN req.LastName[1] ELSE @,
       !.is_active = IF req.IsActive # <<>> THEN req.IsActive[1] ELSE @]

\* userService.Update with the uniqueness checks made for every provided
\* email and username, the account's own included
SvcUpdateAlwaysChecks(s, id, req) ==
    Bind(GetByID(s, id), LAMBDA user :
       IF user = NoUser THEN SvcResult("user not found", s, NoResponse, NoToken)
       ELSE IF req.Email # <<>> /\ ExistsByEmail(s, req.Email[1])
       THEN SvcResult("email is already taken", s, NoResponse, NoToken)
       ELSE IF req.Username # <<>> /\ ExistsByUsername(s, req.Username[1])
       THEN SvcResult("username is already taken", s, NoResponse, NoToken)
       ELSE Bind(MergeUpdate(user, req), LAMBDA merged :
            Bind(RepoUpdate(s, merged), LAMBDA r :
               IF r.err # ""
               THEN SvcResult("failed to update user", s, NoResponse, NoToken)
               ELSE SvcResult("", r.store, ToResponse(merged), NoToken))))

\* userService.Update
SvcUpdate(s, id, req) ==
    Bind(GetByID(s, id), LAMBDA user :
       IF user = NoUser THEN SvcResult("user not found", s, NoResponse, NoToken)
       ELSE IF /\ req.Email # <<>> /\ req.Email[1] # user.email
               /\ ExistsByEmail(s, req.Email[1])
       THEN SvcResult("email is already taken", s, NoResponse, NoToken)
       ELSE IF /\ req.Username # <<>> /\ req.Username[1] # user.username
               /\ ExistsByUsername(s, req.Username[1])
       THEN SvcResult("username is already taken", s, NoResponse, NoToken)
       ELSE Bind(MergeUpdate(user, req), LAMBDA merged :
            Bind(RepoUpdate(s, merged), LAMBDA r :
               IF r.err # ""
               THEN SvcResult("failed to update user", s, NoResponse, NoToken)
               ELSE SvcResult("", r.store, ToResponse(merged), NoToken))))

\* Delete that reports success for an account that is already gone
SvcDeleteIdempotent(s, id) ==
    IF GetByID(s, id) = NoUser
    THEN SvcResult("", s, NoResponse, NoToken)
    ELSE SvcResult("", RepoDelete(s, id), NoResponse, NoToken)

\* userService.Delete
SvcDelete(s, id) ==
    IF GetByID(s, id) = NoUser
    THEN SvcResult("user not found", s, NoResponse, NoToken)
    ELSE SvcResult("", RepoDelete(s, id), NoResponse, NoToken)

\* LoginToken that issues every token without the admin flag
LoginTokenNeverAdmin(user, t) == GenerateToken(user.id, user.email, FALSE, t)

\* the token userService.Login asks the authentication service for
LoginToken(user, t) == GenerateToken(user.id, user.email, user.is_admin, t)

\* userService.Login with the password verified first and a deactivated
\* account reported as invalid credentials
SvcLoginPasswordFirst(s, req, t) ==
    Bind(GetByEmail(s, req.Email), LAMBDA user :
       IF user = NoUser
       THEN SvcResult("invalid credentials", s, NoResponse, NoToken)
       ELSE IF ~CompareHashAndPassword(user.password, req.Password)
       THEN SvcResult("invalid credentials", s, NoResponse, NoToken)
       ELSE IF ~user.is_active
       THEN SvcResult("invalid credentials", s, NoResponse, NoToken)
       ELSE SvcResult("", RepoUpdateLastLogin(s, user.id, t), ToResponse(user),
                      LoginToken(user, t)))

\* userService.Login
SvcLogin(s, req, t) ==
    Bind(GetByEmail(s, req.Email), LAMBDA user :
       IF user = NoUser
       THEN SvcResult("invalid credentials", s, NoResponse, NoToken)
       ELSE IF ~user.is_active
       THEN SvcResult("account is deactivated", s, NoResponse, NoToken)
       ELSE IF ~CompareHashAndPassword(user.password, req.Password)
       THEN SvcResult("invalid credentials", s, NoResponse, NoToken)
       ELSE SvcResult("", RepoUpdateLastLogin(s, user.id, t), ToResponse(user),
                      LoginToken(user, t)))

\* Logout that also switches the caller's account off
SvcLogoutDeactivating(s, userID) ==
    SvcResult("", IF userID \in Visible(s)
                  THEN [s EXCEPT ![userID].is_active = FALSE] ELSE s,
              NoResponse, NoToken)

\* userService.Logout
SvcLogout(s, userID) == SvcResult("", s, NoResponse, NoToken)

(***************************************************************************)
(* Request gates (middleware).  The Authorization header is the scheme    *)
(* prefix it starts with followed by the credential; NoHeader is the     *)
(* empty string.  The request context carries the identity a gate put    *)
(* there, or nothing.                                                     *)
(***************************************************************************)
NoHeader == [prefix |-> "", cred |-> NoToken]

Bearer(tok) == [prefix |-> "Bearer ", cred |-> tok]

\* strings.HasPrefix(authHeader, "Bearer ")
HasBearerPrefix(hdr) == hdr.prefix = "Bearer "

\* strings.TrimPrefix(authHeader, "Bearer ")
TrimBearerPrefix(hdr) == hdr.cred

\* a context without identity: GetUserIDFromContext yields (0, false)
NoIdentity == [is_admin |-> FALSE, has |-> FALSE, user_id |-> 0, user_email |-> ""]

\* context.WithValue of UserIDKey, UserEmailKey and IsAdminKey
Identity(claims) ==
    [is_admin |-> claims.IsAdmin, has |-> TRUE, user_id |-> claims.UserID,
     user_email |-> claims.Email]

Response(status, msg) == [status |-> status, msg |-> msg]

\* JWTAuth with the missing-header case passing the request on, as
\* OptionalAuth does
JWTAuthLenient(hdr, ctx, t) ==
    IF hdr = NoHeader THEN [ctx |-> ctx, pass |-> TRUE, resp |-> <<>>]
    ELSE IF ~HasBearerPrefix(hdr) \/ TrimBearerPrefix(hdr) = NoToken
            \/ ~ValidateJWT(TrimBearerPrefix(hdr), Secret, t).ok
    THEN [ctx |-> ctx, pass |-> FALSE, resp |-> <<Response(401, "Invalid token")>>]
    ELSE [ctx |-> Identity(ValidateJWT(TrimBearerPrefix(hdr), Secret, t).claims),
          pass |-> TRUE, resp |-> <<>>]

\* JWTAuth: either passes the request on with the identity in its context,
\* or writes a 401 and returns
JWTAuth(hdr, ctx, t) ==
    IF hdr = NoHeader
    THEN [ctx |-> ctx, pass |-> FALSE,
          resp |-> <<Response(401, "Authorization header required")>>]
    ELSE IF ~HasBearerPrefix(hdr)
    THEN [ctx |-> ctx, pass |-> FALSE,
          resp |-> <<Response(401, "Invalid authorization header format")>>]
    ELSE IF TrimBearerPrefix(hdr) = NoToken
    THEN [ctx |-> ctx, pass |-> FALSE,
          resp |-> <<Response(401, "Token required")>>]
    ELSE IF ~ValidateJWT(TrimBearerPrefix(hdr), Secret, t).ok
    THEN [ctx |-> ctx, pass |-> FALSE,
          resp |-> <<Response(401, "Invalid token")>>]
    ELSE [ctx |-> Identity(ValidateJWT(TrimBearerPrefix(hdr), Secret, t).claims),
          pass |-> TRUE, resp |-> <<>>]

\* OptionalAuth that refuses a token that does not validate, as JWTAuth does
OptionalAuthStrict(hdr, ctx, t) ==
    IF hdr = NoHeader \/ ~HasBearerPrefix(hdr) \/ TrimBearerPrefix(hdr) = NoToken
    THEN [ctx |-> ctx, pass |-> TRUE, resp |-> <<>>]
    ELSE IF ~ValidateJWT(TrimBearerPrefix(hdr), Secret, t).ok
    THEN [ctx |-> ctx, pass |-> FALSE, resp |-> <<Response(401, "Invalid token")>>]
    ELSE [ctx |-> Identity(ValidateJWT(TrimBearerPrefix(hdr), Secret, t).claims),
          pass |-> TRUE, resp |-> <<>>]

\* OptionalAuth: passes every request on, with the identity in its context
\* when the header carries a token that validates
OptionalAuth(hdr, ctx, t) ==
    IF hdr = NoHeader THEN [ctx |-> ctx, pass |-> TRUE, resp |-> <<>>]
    ELSE IF ~HasBearerPrefix(hdr) THEN [ctx |-> ctx, pass |-> TRUE, resp |-> <<>>]
    ELSE IF TrimBearerPrefix(hdr) = NoToken
    THEN [ctx |-> ctx, pass |-> TRUE, resp |-> <<>>]
    ELSE IF ~ValidateJWT(TrimBearerPrefix(hdr), Secret, t).ok
    THEN [ctx |-> ctx, pass |-> TRUE, resp |-> <<>>]
    ELSE [ctx |-> Identity(ValidateJWT(TrimBearerPrefix(hdr), Secret, t).claims),
          pass |-> TRUE, resp |-> <<>>]

\* RequireAdmin that only asks for an identity, not for its admin flag
RequireAdminAnyUser(ctx) ==
    IF ~ctx.has
    THEN [pass |-> FALSE, resp |-> <<Response(403, "Admin access required")>>]
    ELSE [pass |-> TRUE, resp |-> <<>>]

\* RequireAdmin: the admin flag is read from the context
RequireAdmin(ctx) ==
    IF ~ctx.has \/ ~ctx.is_admin
    THEN [pass |-> FALSE, resp |-> <<Response(403, "Admin access required")>>]
    ELSE [pass |-> TRUE, resp |-> <<>>]

(***************************************************************************)
(* Handlers (UserHandler).  A handler returns the response it writes, the *)
(* service call it made ("" for none) and that call's result.             *)
(***************************************************************************)
Digits == <<"0", "1", "2", "3", "4", "5", "6", "7", "8", "9">>

DigitValue(c) == (CHOOSE k \in DOMAIN Digits : Digits[k] = c) - 1

IsDigit(c) == \E k \in DOMAIN Digits : Digits[k] = c

RECURSIVE DecimalValue(_)
DecimalValue(str) ==
    IF str = <<>> THEN 0
    ELSE 10 * DecimalValue(SubSeq(str, 1, Len(str) - 1)) + DigitValue(str[Len(str)])

\* strconv.ParseUint(idStr, 10, 32) on the {id} path parameter
ParseUint(str) ==
    IF str # <<>> /\ \A k \in DOMAIN str : IsDigit(str[k])
    THEN [ok |-> TRUE, val |-> DecimalValue(str)]
    ELSE [ok |-> FALSE, val |-> 0]

Handled(status, msg, svc, res) ==
    [resp |-> <<Response(status, msg)>>, svc |-> svc, res |-> res]

NoCall(s) == SvcResult("", s, NoResponse, NoToken)

\* UserHandler.Create
HandleCreate(s, body) ==
    IF ~body.json THEN Handled(400, "Invalid JSON", "", NoCall(s))
    ELSE IF ~ValidCreate(DecodeCreate(body))
    THEN Handled(400, "Validation failed", "", NoCall(s))
    ELSE Bind(SvcCreate(s, DecodeCreate(body)), LAMBDA res :
            IF res.err # "" THEN Handled(400, res.err, "Create", res)
            ELSE Handled(201, "User created successfully", "Create", res))

\* GetByID that answers a service error the way Update and Delete do
HandleGetByIDBadRequest(s, idStr) ==
    Bind(ParseUint(idStr), LAMBDA id :
       IF ~id.ok THEN Handled(400, "Invalid user ID", "", NoCall(s))
       ELSE Bind(SvcGetByID(s, id.val), LAMBDA res :
               IF res.err # "" THEN Handled(400, res.err, "GetByID", res)
               ELSE Handled(200, "User retrieved successfully", "GetByID", res)))

\* UserHandler.GetByID
HandleGetByID(s, idStr) ==
    Bind(ParseUint(idStr), LAMBDA id :
       IF ~id.ok THEN Handled(400, "Invalid user ID", "", NoCall(s))
       ELSE Bind(SvcGetByID(s, id.val), LAMBDA res :
               IF res.err # "" THEN Handled(404, res.err, "GetByID", res)
               ELSE Handled(200, "User retrieved successfully", "GetByID", res)))

\* the ownership check of UserHandler.Update and UserHandler.Delete
OwnerOrAdmin(ctx, id) == ~(ctx.user_id # id /\ ~ctx.is_admin)

\* UserHandler.Update
HandleUpdate(s, ctx, idStr, body) ==
    Bind(ParseUint(idStr), LAMBDA id :
       IF ~id.ok THEN Handled(400, "Invalid user ID", "", NoCall(s))
       ELSE IF ~OwnerOrAdmin(ctx, id.val)
       THEN Handled(403, "You can only update your own profile", "", NoCall(s))
       ELSE IF ~body.json THEN Handled(400, "Invalid JSON", "", NoCall(s))
       ELSE IF ~ValidUpdate(DecodeUpdate(body))
       THEN Handled(400, "Validation failed", "", NoCall(s))
       ELSE Bind(SvcUpdate(s, id.val, DecodeUpdate(body)), LAMBDA res :
               IF res.err # "" THEN Handled(400, res.err, "Update", res)
               ELSE Handled(200, "User updated successfully", "Update", res)))

\* UserHandler.Delete
HandleDelete(s, ctx, idStr) ==
    Bind(ParseUint(idStr), LAMBDA id :
       IF ~id.ok THEN Handled(400, "Invalid user ID", "", NoCall(s))
       ELSE IF ~OwnerOrAdmin(ctx, id.val)
       THEN Handled(403, "You can only delete your own profile", "", NoCall(s))
       ELSE Bind(SvcDelete(s, id.val), LAMBDA res :
               IF res.err # "" THEN Handled(400, res.err, "Delete", res)
               ELSE Handled(200, "User deleted successfully", "Delete", res)))

\* UserHandler.Login
HandleLogin(s, body, t) ==
    IF ~body.json THEN Handled(400, "Invalid JSON", "", NoCall(s))
    ELSE IF ~ValidLogin(DecodeLogin(body))
    THEN Handled(400, "Validation failed", "", NoCall(s))
    ELSE Bind(SvcLogin(s, DecodeLogin(body), t), LAMBDA res :
            IF res.err # "" THEN Handled(401, res.err, "Login", res)
            ELSE Handled(200, "Login successful", "Login", res))

\* UserHandler.Logout
HandleLogout(s, ctx) ==
    IF ~ctx.has THEN Handled(401, "User not authenticated", "", NoCall(s))
    ELSE Bind(SvcLogout(s, ctx.user_id), LAMBDA res :
            IF res.err # "" THEN Handled(500, "Logout failed", "Logout", res)
            ELSE Handled(200, "Logout successful", "Logout", res))

\* Profile that reads the user id of the context without looking at `ok`
HandleProfileUnchecked(s, ctx) ==
    Bind(SvcGetByID(s, ctx.user_id), LAMBDA res :
       IF res.err # "" THEN Handled(404, res.err, "GetByID", res)
       ELSE Handled(200, "Profile retrieved successfully", "GetByID", res))

\* UserHandler.Profile
HandleProfile(s, ctx) ==
    IF ~ctx.has THEN Handled(401, "User not authenticated", "", NoCall(s))
    ELSE Bind(SvcGetByID(s, ctx.user_id), LAMBDA res :
            IF res.err # "" THEN Handled(404, res.err, "GetByID", res)
            ELSE Handled(200, "Profile retrieved successfully", "GetByID", res))

(***************************************************************************)
(* Routing (Router.SetupRoutes): the gates in front of each handler.      *)
(***************************************************************************)
\* the routes inside the group that uses JWTAuth
Protected(route) ==
    route \in {"logout", "profile", "get", "update", "delete", "admin_create"}

\* the routes inside the inner group that uses RequireAdmin
AdminOnly(route) == route = "admin_create"

Dispatch(route, s, t, ctx, idStr, body) ==
    CASE route \in {"register", "admin_create"} -> HandleCreate(s, body)
      [] route = "login" -> HandleLogin(s, body, t)
      [] route = "logout" -> HandleLogout(s, ctx)
      [] route = "profile" -> HandleProfile(s, ctx)
      [] route = "get" -> HandleGetByID(s, idStr)
      [] route = "update" -> HandleUpdate(s, ctx, idStr, body)
      [] route = "delete" -> HandleDelete(s, ctx, idStr)

\* One request through the chain of its route: what each stage did, the
\* responses written, and the store the request leaves.  `gated` is FALSE
\* only when a handler is invoked outside the router, with a context no gate
\* has filled.
Serve(route, gated, s, t, hdr, idStr, body) ==
    Bind(IF gated /\ Protected(route) THEN JWTAuth(hdr, NoIdentity, t)
         ELSE [ctx |-> NoIdentity, pass |-> TRUE, resp |-> <<>>], LAMBDA g1 :
    Bind(IF gated /\ AdminOnly(route) THEN RequireAdmin(g1.ctx)
         ELSE [pass |-> TRUE, resp |-> <<>>], LAMBDA g2 :
    Bind([store |-> s, user |-> NoResponse, err |-> "",
          token |-> NoToken, ctx |-> g1.ctx, resp |-> <<>>, svc |-> "",
          route |-> route, jwt_next |-> FALSE, handler |-> FALSE], LAMBDA out :
       IF ~g1.pass THEN [out EXCEPT !.resp = g1.resp]
       ELSE IF ~g2.pass
       THEN [out EXCEPT !.jwt_next = gated /\ Protected(route), !.resp = g2.resp]
       ELSE Bind(Dispatch(route, s, t, g1.ctx, idStr, body), LAMBDA h :
              [out EXCEPT !.jwt_next = gated /\ Protected(route),
                          !.handler = TRUE, !.resp = h.resp, !.svc = h.svc,
                          !.err = h.res.err, !.user = h.res.user,
                          !.token = h.res.token, !.store = h.res.store]))))

(***************************************************************************)
(* Inputs.                                                                 *)
(***************************************************************************)
Password == "pw"

\* a token signed with another key, claiming to be an admin
ForgedToken ==
    [email |-> "a@x", uid |-> 1, admin |-> TRUE, exp |-> MaxTime + TokenTTL,
     sig |-> "other"]

BadHeaders ==
    {NoHeader, [prefix |-> "Basic ", cred |-> ForgedToken], Bearer(NoToken),
     Bearer(ForgedToken)}

Headers == BadHeaders \cup {Bearer(tok) : tok \in tokens}

IdStrs == {<<Digits[n + 1]>> : n \in 0..MaxUsers} \cup {<<"x">>}

NoId == <<>>

CreateBody(e, u, pw) ==
    [email |-> e, username |-> u, password |-> pw, first_name |-> "F",
     last_name |-> "L", is_active |-> FALSE, is_admin |-> TRUE,
     json |-> TRUE]

CreateBodies ==
    {BadJSON, CreateBody("a@x", "ann", ""), CreateBody("a@x", "ann", Password),
     CreateBody("b@x", "ann", Password), CreateBody("a@x", "bob", Password)}

LoginBodies ==
    {BadJSON}
    \cup {[email |-> e, password |-> pw, json |-> TRUE] :
            e \in Emails \cup {UnknownEmail}, pw \in {Password, "bad"}}

UpdateBody(e, u, f, a) ==
    [email |-> e, username |-> u, first_name |-> f, last_name |-> <<>>,
     is_active |-> a, is_admin |-> TRUE, json |-> TRUE]

UpdateBodies ==
    {BadJSON, UpdateBody(<<>>, <<>>, <<>>, <<FALSE>>),
     UpdateBody(<<>>, <<>>, <<>>, <<TRUE>>)}

NoBody == BadJSON

\* the requests sent to a gated route: every id and body behind a token the
\* client holds, and one request without a header
Gated(ids, bodies) ==
    {<<Bearer(tok), i, b>> : tok \in tokens, i \in ids, b \in bodies}
    \cup {<<NoHeader, CHOOSE i \in ids : TRUE, CHOOSE b \in bodies : TRUE>>}

(***************************************************************************)
(* The system: requests served one at a time.  `last` is what the client  *)
(* saw of the last request.                                               *)
(***************************************************************************)
Seen(route, body, handler, resp, svc) ==
    [body |-> body, resp |-> resp, svc |-> svc, route |-> route,
     handler |-> handler]

NoCreateReq ==
    [Email |-> "", Username |-> "", Password |-> "", FirstName |-> "",
     LastName |-> ""]

NoUpdateReq ==
    [Email |-> <<>>, Username |-> <<>>, FirstName |-> <<>>, LastName |-> <<>>,
     IsActive |-> <<>>]

IdleProc ==
    [id |-> 0, user |-> NoUser, err |-> "", pc |-> "idle",
     op |-> "", creq |-> NoCreateReq, ureq |-> NoUpdateReq, with |-> {}]

\* the Server that server.New returns: the database connection is open, the
\* HTTP server is built and not yet listening, no request is being served
NewServer ==
    [err |-> "", phase |-> "new", listening |-> FALSE, inflight |-> 0,
     db |-> "open", left |-> 0, on_closed |-> FALSE]

Init ==
    /\ srv = NewServer
    /\ store = <<>>
    /\ tokens = {}
    /\ now = 1
    /\ last = Seen("init", NoBody, FALSE, <<>>, "")
    /\ procs = [p \in 1..MaxProcs |-> IdleProc]

\* the client keeps the token a login returned, forgetting an older one
\* when it holds MaxTokens already
Keep(held, tok) ==
    IF tok = NoToken THEN {held}
    ELSE IF Cardinality(held \cup {tok}) <= MaxTokens THEN {held \cup {tok}}
    ELSE {(held \ {d}) \cup {tok} : d \in held}

Request(route, gated, hdr, idStr, body) ==
    \E r \in {Serve(route, gated, store, now, hdr, idStr, body)} :
       /\ Len(r.store) <= MaxUsers
       /\ store' = r.store
       /\ last' = Seen(route, body, r.handler, r.resp, r.svc)
       /\ tokens' \in Keep(tokens, r.token)
       /\ UNCHANGED <<now, procs, srv>>

Register == \E body \in CreateBodies : Request("register", TRUE, NoHeader, NoId, body)

AdminCreate ==
    \E q \in Gated({NoId}, CreateBodies) :
        Request("admin_create", TRUE, q[1], q[2], q[3])

Login == \E body \in LoginBodies : Request("login", TRUE, NoHeader, NoId, body)

Logout ==
    \E q \in Gated({NoId}, {NoBody}) : Request("logout", TRUE, q[1], q[2], q[3])

Profile == \E hdr \in Headers : Request("profile", TRUE, hdr, NoId, NoBody)

GetUser ==
    \E q \in Gated(IdStrs, {NoBody}) : Request("get", TRUE, q[1], q[2], q[3])

Update ==
    \E q \in Gated(IdStrs, UpdateBodies) : Request("update", TRUE, q[1], q[2], q[3])

Delete ==
    \E q \in Gated(IdStrs, {NoBody}) : Request("delete", TRUE, q[1], q[2], q[3])

\* UserHandler.Update / Delete invoked with a context that carries no identity
UpdateNoIdentity ==
    \E idStr \in IdStrs :
        Request("update", FALSE, NoHeader, idStr,
                UpdateBody(<<>>, <<>>, <<>>, <<FALSE>>))

DeleteNoIdentity ==
    \E idStr \in IdStrs : Request("delete", FALSE, NoHeader, idStr, NoBody)

\* cmd/seed: creates the admin account straight through the repository
SeedUser ==
    [id |-> 0, email |-> "b@x", username |-> "bob",
     password |-> HashPassword(Password), first_name |-> "F",
     last_name |-> "L", is_active |-> TRUE, is_admin |-> TRUE,
     last_login |-> 0, deleted |-> FALSE]

Seed ==
    /\ GetByEmail(store, SeedUser.email) = NoUser
    /\ GetByUsername(store, SeedUser.username) = NoUser
    /\ Len(store) < MaxUsers
    /\ \E r \in {RepoCreate(store, SeedUser)} :
          r.err = "" /\ store' = r.store
    /\ last' = Seen("seed", NoBody, FALSE, <<>>, "")
    /\ UNCHANGED <<tokens, now, procs, srv>>

\* time passes
Tick ==
    /\ now < MaxTime
    /\ now' = now + 1
    /\ last' = Seen("tick", NoBody, FALSE, <<>>, "")
    /\ UNCHANGED <<store, tokens, procs, srv>>

Next ==
    \/ Register \/ AdminCreate \/ Login \/ Logout \/ Profile \/ GetUser
    \/ Update \/ Delete \/ UpdateNoIdentity \/ DeleteNoIdentity
    \/ Seed \/ Tick

Spec == Init /\ [][Next]_vars


(***************************************************************************)
(* Partial updates: registrations, logins and Update requests that carry  *)
(* one field, or two, of UserUpdateRequest.                                *)
(***************************************************************************)
FieldUpdateBodies ==
    {UpdateBody(<<>>, <<>>, <<f>>, <<>>) : f \in {"G", "F", ""}}
    \cup {UpdateBody(<<"b@x">>, <<>>, <<>>, <<>>),
          UpdateBody(<<>>, <<"bob">>, <<>>, <<>>),
          UpdateBody(<<>>, <<>>, <<"G">>, <<FALSE>>),
          UpdateBody(<<"a@x">>, <<>>, <<"G">>, <<>>),
          UpdateBody(<<>>, <<"ann">>, <<"G">>, <<>>)}

PartialUpdate ==
    \E q \in Gated(IdStrs, FieldUpdateBodies) :
        Request("update", TRUE, q[1], q[2], q[3])

NextUpdate == Register \/ Login \/ PartialUpdate

SpecUpdate == Init /\ [][NextUpdate]_vars

(***************************************************************************)
(* A handler behind OptionalAuth.  No route of SetupRoutes uses the gate; *)
(* here it stands in front of the Profile handler, which answers by the   *)
(* identity it finds in the context.  `last` keeps the header sent.        *)
(***************************************************************************)
OptionalRequest ==
    /\ \E hdr \in Headers :
         \E g \in {OptionalAuth(hdr, NoIdentity, now)} :
            \E h \in {HandleProfile(store, g.ctx)} :
               last' = Seen("optional", hdr, g.pass,
                            IF g.pass THEN g.resp \o h.resp ELSE g.resp, h.svc)
    /\ UNCHANGED <<store, tokens, now, procs, srv>>

NextOptional == Register \/ Login \/ Tick \/ OptionalRequest

SpecOptional == Init /\ [][NextOptional]_vars

(***************************************************************************)
(* Store failures.  A repository method may return an error of the        *)
(* database driver instead of a result; `fail` names the method that does *)
(* so for the request at hand ("" for none).  A service result carries in *)
(* `failed` the method whose error the call ran into.                     *)
(***************************************************************************)
\* the text of the driver's error
StoreError == "dial tcp 127.0.0.1:5432: connect: connection refused"

\* fmt.Errorf("<text>: %w", err).Error()
Errorf(text, cause) == text \o ": " \o cause

RepoCalls ==
    {"ExistsByEmail", "ExistsByUsername", "Create", "GetByID", "GetByEmail",
     "Update", "Delete", "UpdateLastLogin", "List", "Count"}

SvcFault(failed, res) ==
    [store |-> res.store, user |-> res.user, err |-> res.err,
     token |-> res.token, failed |-> failed]

\* the service returns the wrapped store error
Failure(call, text, s) ==
    SvcFault(call, SvcResult(Errorf(text, StoreError), s, NoResponse, NoToken))

\* userService.Create
SvcCreateFault(s, req, fail) ==
    IF fail = "ExistsByEmail"
    THEN Failure(fail, "failed to check user existence", s)
    ELSE IF ExistsByEmail(s, req.Email) THEN SvcFault("", SvcCreate(s, req))
    ELSE IF fail = "ExistsByUsername"
    THEN Failure(fail, "failed to check username availability", s)
    ELSE IF ExistsByUsername(s, req.Username)
    THEN SvcFault("", SvcCreate(s, req))
    ELSE IF fail = "Create" THEN Failure(fail, "failed to create user", s)
    ELSE SvcFault("", SvcCreate(s, req))

\* userService.GetByID
SvcGetByIDFault(s, id, fail) ==
    IF fail = "GetByID" THEN Failure(fail, "failed to get user", s)
    ELSE SvcFault("", SvcGetByID(s, id))

\* userService.Update
SvcUpdateFault(s, id, req, fail) ==
    IF fail = "GetByID" THEN Failure(fail, "failed to get user", s)
    ELSE Bind(GetByID(s, id), LAMBDA user :
       IF user = NoUser THEN SvcFault("", SvcUpdate(s, id, req))
       ELSE IF /\ req.Email # <<>> /\ req.Email[1] # user.email
               /\ fail = "ExistsByEmail"
       THEN Failure(fail, "failed to check email availability", s)
       ELSE IF /\ req.Email # <<>> /\ req.Email[1] # user.email
               /\ ExistsByEmail(s, req.Email[1])
       THEN SvcFault("", SvcUpdate(s, id, req))
       ELSE IF /\ req.Username # <<>> /\ req.Username[1] # user.username
               /\ fail = "ExistsByUsername"
       THEN Failure(fail, "failed to check username availability", s)
       ELSE IF /\ req.Username # <<>> /\ req.Username[1] # user.username
               /\ ExistsByUsername(s, req.Username[1])
       THEN SvcFault("", SvcUpdate(s, id, req))
       ELSE IF fail = "Update" THEN Failure(fail, "failed to update user", s)
       ELSE SvcFault("", SvcUpdate(s, id, req)))

\* userService.Delete
SvcDeleteFault(s, id, fail) ==
    IF fail = "GetByID" THEN Failure(fail, "failed to get user", s)
    ELSE IF GetByID(s, id) = NoUser THEN SvcFault("", SvcDelete(s, id))
    ELSE IF fail = "Delete" THEN Failure(fail, "failed to delete user", s)
    ELSE SvcFault("", SvcDelete(s, id))

\* userService.List: the error of either store call; the page itself plays
\* no part in the failure
SvcListFault(s, fail) ==
    IF fail = "List" THEN Failure(fail, "failed to list users", s)
    ELSE IF fail = "Count" THEN Failure(fail, "failed to count users", s)
    ELSE SvcFault("", NoCall(s))

\* Login that gives up when UpdateLastLogin fails
SvcLoginFaultStrict(s, req, t, fail) ==
    IF fail = "GetByEmail" THEN Failure(fail, "failed to authenticate", s)
    ELSE Bind(SvcLogin(s, req, t), LAMBDA res :
            IF res.err = "" /\ fail = "GenerateToken"
            THEN Failure(fail, "failed to generate token", s)
            ELSE IF res.err = "" /\ fail = "UpdateLastLogin"
            THEN Failure(fail, "failed to update last login", s)
            ELSE SvcFault("", res))

\* userService.Login: a failure of authSvc.GenerateToken ends the login
\* before the store is written; a failure of UpdateLastLogin is logged and
\* the login goes on
SvcLoginFault(s, req, t, fail) ==
    IF fail = "GetByEmail" THEN Failure(fail, "failed to authenticate", s)
    ELSE Bind(SvcLogin(s, req, t), LAMBDA res :
            IF res.err = "" /\ fail = "GenerateToken"
            THEN Failure(fail, "failed to generate token", s)
            ELSE IF res.err = "" /\ fail = "UpdateLastLogin"
            THEN SvcFault(fail, [res EXCEPT !.store = s])
            ELSE SvcFault("", res))

\* the handlers, in front of a store with a failing method
HandleCreateFault(s, body, fail) ==
    IF ~body.json THEN Handled(400, "Invalid JSON", "", SvcFault("", NoCall(s)))
    ELSE IF ~ValidCreate(DecodeCreate(body))
    THEN Handled(400, "Validation failed", "", SvcFault("", NoCall(s)))
    ELSE Bind(SvcCreateFault(s, DecodeCreate(body), fail), LAMBDA res :
            IF res.err # "" THEN Handled(400, res.err, "Create", res)
            ELSE Handled(201, "User created successfully", "Create", res))

HandleGetByIDFault(s, idStr, fail) ==
    Bind(ParseUint(idStr), LAMBDA id :
       IF ~id.ok
       THEN Handled(400, "Invalid user ID", "", SvcFault("", NoCall(s)))
       ELSE Bind(SvcGetByIDFault(s, id.val, fail), LAMBDA res :
               IF res.err # "" THEN Handled(404, res.err, "GetByID", res)
               ELSE Handled(200, "User retrieved successfully", "GetByID", res)))

HandleUpdateFault(s, ctx, idStr, body, fail) ==
    Bind(ParseUint(idStr), LAMBDA id :
       IF ~id.ok
       THEN Handled(400, "Invalid user ID", "", SvcFault("", NoCall(s)))
       ELSE IF ~OwnerOrAdmin(ctx, id.val)
       THEN Handled(403, "You can only update your own profile", "",
                    SvcFault("", NoCall(s)))
       ELSE IF ~body.json
       THEN Handled(400, "Invalid JSON", "", SvcFault("", NoCall(s)))
       ELSE IF ~ValidUpdate(DecodeUpdate(body))
       THEN Handled(400, "Validation failed", "", SvcFault("", NoCall(s)))
       ELSE Bind(SvcUpdateFault(s, id.val, DecodeUpdate(body), fail),
                 LAMBDA res :
               IF res.err # "" THEN Handled(400, res.err, "Update", res)
               ELSE Handled(200, "User updated successfully", "Update", res)))

HandleDeleteFault(s, ctx, idStr, fail) ==
    Bind(ParseUint(idStr), LAMBDA id :
       IF ~id.ok
       THEN Handled(400, "Invalid user ID", "", SvcFault("", NoCall(s)))
       ELSE IF ~OwnerOrAdmin(ctx, id.val)
       THEN Handled(403, "You can only delete your own profile", "",
                    SvcFault("", NoCall(s)))
       ELSE Bind(SvcDeleteFault(s, id.val, fail), LAMBDA res :
               IF res.err # "" THEN Handled(400, res.err, "Delete", res)
               ELSE Handled(200, "User deleted successfully", "Delete", res)))

HandleListFault(s, fail) ==
    Bind(SvcListFault(s, fail), LAMBDA res :
       IF res.err # "" THEN Handled(500, "Failed to retrieve users", "List", res)
       ELSE Handled(200, "Users retrieved successfully", "List", res))

HandleLoginFault(s, body, t, fail) ==
    IF ~body.json THEN Handled(400, "Invalid JSON", "", SvcFault("", NoCall(s)))
    ELSE IF ~ValidLogin(DecodeLogin(body))
    THEN Handled(400, "Validation failed", "", SvcFault("", NoCall(s)))
    ELSE Bind(SvcLoginFault(s, DecodeLogin(body), t, fail), LAMBDA res :
            IF res.err # "" THEN Handled(401, res.err, "Login", res)
            ELSE Handled(200, "Login successful", "Login", res))

HandleProfileFault(s, ctx, fail) ==
    IF ~ctx.has
    THEN Handled(401, "User not authenticated", "", SvcFault("", NoCall(s)))
    ELSE Bind(SvcGetByIDFault(s, ctx.user_id, fail), LAMBDA res :
            IF res.err # "" THEN Handled(404, res.err, "GetByID", res)
            ELSE Handled(200, "Profile retrieved successfully", "GetByID", res))

DispatchFault(route, s, t, ctx, idStr, body, fail) ==
    CASE route = "register" -> HandleCreateFault(s, body, fail)
      [] route = "login" -> HandleLoginFault(s, body, t, fail)
      [] route = "profile" -> HandleProfileFault(s, ctx, fail)
      [] route = "get" -> HandleGetByIDFault(s, idStr, fail)
      [] route = "update" -> HandleUpdateFault(s, ctx, idStr, body, fail)
      [] route = "delete" -> HandleDeleteFault(s, ctx, idStr, fail)
      [] route = "list" -> HandleListFault(s, fail)

\* the routes of the API operations and the requests sent to them
FaultRoutes ==
    {"register", "login", "profile", "get", "update", "delete", "list"}

FaultInputs(route) ==
    CASE route = "register" -> {NoId} \X CreateBodies
      [] route = "login" -> {NoId} \X LoginBodies
      [] route \in {"profile", "list"} -> {NoId} \X {NoBody}
      [] route \in {"get", "delete"} -> IdStrs \X {NoBody}
      [] route = "update" -> IdStrs \X (UpdateBodies \cup FieldUpdateBodies)

\* one request through its route's chain while the method `fail` of the
\* repository is failing
ServeFault(route, s, t, hdr, idStr, body, fail) ==
    Bind(IF route \in {"register", "login"}
         THEN [ctx |-> NoIdentity, pass |-> TRUE, resp |-> <<>>]
         ELSE JWTAuth(hdr, NoIdentity, t), LAMBDA g :
       IF ~g.pass
       THEN [store |-> s, token |-> NoToken, resp |-> g.resp, svc |-> "",
             handler |-> FALSE, failed |-> ""]
       ELSE Bind(DispatchFault(route, s, t, g.ctx, idStr, body, fail),
                 LAMBDA h :
               [store |-> h.res.store, token |-> h.res.token,
                resp |-> h.resp, svc |-> h.svc, handler |-> TRUE,
                failed |-> h.res.failed]))

\* a request that runs into the failing method; what the client saw of it is
\* kept with the name of the method in place of the body
FaultyRequest ==
    \E route \in FaultRoutes, hdr \in Headers, fail \in RepoCalls :
       \E in \in FaultInputs(route) :
          \E r \in {ServeFault(route, store, now, hdr, in[1], in[2], fail)} :
             /\ r.failed # ""
             /\ store' = r.store
             /\ last' = Seen(route, [failed |-> r.failed], r.handler, r.resp,
                             r.svc)
             /\ tokens' \in Keep(tokens, r.token)
             /\ UNCHANGED <<now, procs, srv>>

NextFault == Register \/ Login \/ FaultyRequest

SpecFault == Init /\ [][NextFault]_vars

(***************************************************************************)
(* Concurrent service calls.  Each request runs on its own goroutine; a   *)
(* call of userService.Create, Update or Delete is a sequence of store    *)
(* calls, each atomic, with other requests' store calls in between.  A    *)
(* process runs one call; `with` is the set of processes whose calls were *)
(* in flight when it began.                                               *)
(***************************************************************************)
ConcCreateReqs ==
    {DecodeCreate(CreateBody(e, u, Password)) : e \in Emails, u \in Usernames}

ConcUpdateReqs ==
    {[NoUpdateReq EXCEPT !.Email = <<e>>] : e \in Emails}
    \cup {[NoUpdateReq EXCEPT !.Username = <<u>>] : u \in Usernames}

InFlight == {q \in DOMAIN procs : procs[q].pc \notin {"idle", "done"}}

Finish(p, err) == [procs EXCEPT ![p].pc = "done", ![p].err = err]

\* userService.Create up to its first store call, ExistsByEmail
ConcCreateBegin(p) ==
    /\ procs[p].pc = "idle"
    /\ \E req \in ConcCreateReqs :
        LET started == [procs EXCEPT ![p].op = "create", ![p].creq = req,
                                     ![p].with = InFlight]
        IN procs' =
             IF ExistsByEmail(store, req.Email)
             THEN [started EXCEPT ![p].pc = "done",
                                  ![p].err = "user with this email already exists"]
             ELSE [started EXCEPT ![p].pc = "create_username"]
    /\ UNCHANGED <<store, tokens, now, last, srv>>

\* userService.Create: ExistsByUsername
ConcCreateCheckUsername(p) ==
    /\ procs[p].pc = "create_username"
    /\ procs' =
         IF ExistsByUsername(store, procs[p].creq.Username)
         THEN Finish(p, "username is already taken")
         ELSE [procs EXCEPT ![p].pc = "create_insert"]
    /\ UNCHANGED <<store, tokens, now, last, srv>>

\* userService.Create: userRepo.Create
ConcCreateInsert(p) ==
    /\ procs[p].pc = "create_insert"
    /\ LET r == RepoCreate(store, NewUser(procs[p].creq))
       IN /\ Len(r.store) <= MaxUsers
          /\ store' = r.store
          /\ procs' =
               IF r.err # "" THEN Finish(p, "failed to create user")
               ELSE [procs EXCEPT ![p].pc = "done", ![p].id = r.id]
    /\ UNCHANGED <<tokens, now, last, srv>>

\* the store call userService.Update makes next, given what it has read
UpdateNextCall(user, req, after) ==
    IF after = "get" /\ req.Email # <<>> /\ req.Email[1] # user.email
    THEN "update_email"
    ELSE IF req.Username # <<>> /\ req.Username[1] # user.username
    THEN "update_username"
    ELSE "update_save"

\* userService.Update up to its first store call, GetByID
ConcUpdateBegin(p) ==
    /\ procs[p].pc = "idle"
    /\ \E id \in 1..MaxUsers, req \in ConcUpdateReqs :
        LET started == [procs EXCEPT ![p].op = "update", ![p].ureq = req,
                                     ![p].id = id, ![p].with = InFlight]
            user == GetByID(store, id)
        IN procs' =
             IF user = NoUser
             THEN [started EXCEPT ![p].pc = "done", ![p].err = "user not found"]
             ELSE [started EXCEPT ![p].user = user,
                                  ![p].pc = UpdateNextCall(user, req, "get")]
    /\ UNCHANGED <<store, tokens, now, last, srv>>

\* userService.Update: ExistsByEmail for a new email
ConcUpdateCheckEmail(p) ==
    /\ procs[p].pc = "update_email"
    /\ procs' =
         IF ExistsByEmail(store, procs[p].ureq.Email[1])
         THEN Finish(p, "email is already taken")
         ELSE [procs EXCEPT
                 ![p].pc = UpdateNextCall(procs[p].user, procs[p].ureq, "email")]
    /\ UNCHANGED <<store, tokens, now, last, srv>>

\* userService.Update: ExistsByUsername for a new username
ConcUpdateCheckUsername(p) ==
    /\ procs[p].pc = "update_username"
    /\ procs' =
         IF ExistsByUsername(store, procs[p].ureq.Username[1])
         THEN Finish(p, "username is already taken")
         ELSE [procs EXCEPT ![p].pc = "update_save"]
    /\ UNCHANGED <<store, tokens, now, last, srv>>

\* userService.Update: userRepo.Update of the merged user
ConcUpdateSave(p) ==
    /\ procs[p].pc = "update_save"
    /\ LET r == RepoUpdate(store, MergeUpdate(procs[p].user, procs[p].ureq))
       IN /\ store' = r.store
          /\ procs' = Finish(p, IF r.err # "" THEN "failed to update user" ELSE "")
    /\ UNCHANGED <<tokens, now, last, srv>>

\* userService.Delete up to its first store call, GetByID
ConcDeleteBegin(p) ==
    /\ procs[p].pc = "idle"
    /\ \E id \in 1..MaxUsers :
        LET started == [procs EXCEPT ![p].op = "delete", ![p].id = id,
                                     ![p].with = InFlight]
        IN procs' =
             IF GetByID(store, id) = NoUser
             THEN [started EXCEPT ![p].pc = "done", ![p].err = "user not found"]
             ELSE [started EXCEPT ![p].pc = "delete_exec"]
    /\ UNCHANGED <<store, tokens, now, last, srv>>

\* userService.Delete: userRepo.Delete
ConcDeleteExec(p) ==
    /\ procs[p].pc = "delete_exec"
    /\ store' = RepoDelete(store, procs[p].id)
    /\ procs' = Finish(p, "")
    /\ UNCHANGED <<tokens, now, last, srv>>

NextConc ==
    \E p \in 1..MaxProcs :
        \/ ConcCreateBegin(p) \/ ConcCreateCheckUsername(p) \/ ConcCreateInsert(p)
        \/ ConcUpdateBegin(p) \/ ConcUpdateCheckEmail(p)
        \/ ConcUpdateCheckUsername(p) \/ ConcUpdateSave(p)
        \/ ConcDeleteBegin(p) \/ ConcDeleteExec(p)

SpecConc == Init /\ [][NextConc]_vars

(***************************************************************************)
(* Properties.  A property about "every request" quantifies over every    *)
(* request that can be sent in the current state and looks at what Serve  *)
(* answers there.                                                          *)
(***************************************************************************)
ProtectedRoutes ==
    {"logout", "profile", "get", "update", "delete", "admin_create"}

\* the ids and bodies a route's requests carry
RouteInputs(route) ==
    CASE route = "update" -> IdStrs \X UpdateBodies
      [] route \in {"get", "delete"} -> IdStrs \X {NoBody}
      [] route \in {"register", "admin_create"} -> {NoId} \X CreateBodies
      [] route = "login" -> {NoId} \X LoginBodies
      [] OTHER -> {NoId} \X {NoBody}

\* the credential is a token signed with the server's key and not yet expired
TokenAccepted(hdr) ==
    /\ hdr # NoHeader
    /\ hdr.prefix = "Bearer "
    /\ hdr.cred # NoToken
    /\ hdr.cred.sig = Secret
    /\ now <= hdr.cred.exp

Status(r) == IF r.resp = <<>> THEN 0 ELSE r.resp[1].status

\* a non-deleted account holds the email / the username
EmailHeld(s, e) == \E i \in DOMAIN s : ~s[i].deleted /\ s[i].email = e

UsernameHeld(s, u) == \E i \in DOMAIN s : ~s[i].deleted /\ s[i].username = u

\* C1: on every route behind JWTAuth the gate passes the request on iff the
\* Authorization header is present, starts with "Bearer ", carries a
\* non-empty token and the token validates; otherwise exactly one response
\* is written, a 401, and no handler runs.
C1_MandatoryGate ==
    \A route \in ProtectedRoutes, hdr \in Headers :
        \A in \in RouteInputs(route) :
            LET r == Serve(route, TRUE, store, now, hdr, in[1], in[2])
            IN /\ r.jwt_next <=> TokenAccepted(hdr)
               /\ ~TokenAccepted(hdr) =>
                    /\ Len(r.resp) = 1 /\ r.resp[1].status = 401
                    /\ ~r.handler /\ r.svc = "" /\ r.store = store

C1_Witness ==
    /\ last.route = "profile" /\ last.handler
    /\ last.resp = <<Response(200, "Profile retrieved successfully")>>

\* C2 (as claimed): a request to a protected route that carries a token of
\* an account the store holds as deactivated or soft-deleted is refused.
C2_StatusRevalidated ==
    \A route \in ProtectedRoutes, tok \in tokens :
        \A in \in RouteInputs(route) :
            LET r == Serve(route, TRUE, store, now, Bearer(tok), in[1], in[2])
            IN (tok.uid \in DOMAIN store
                /\ (store[tok.uid].deleted \/ ~store[tok.uid].is_active))
               => Status(r) >= 400

\* C3: on the admin-only route a request without an accepted token gets 401
\* and never reaches the admin gate; an accepted token without the admin
\* flag gets 403 and no handler; the handler runs only for an accepted token
\* with the admin flag.  A context without the flag is refused too.
C3_AdminGate ==
    /\ \A hdr \in Headers, body \in CreateBodies :
        LET r == Serve("admin_create", TRUE, store, now, hdr, NoId, body)
        IN /\ ~TokenAccepted(hdr) =>
                 /\ r.resp = <<Response(401, r.resp[1].msg)>>
                 /\ ~r.jwt_next /\ ~r.handler
           /\ (TokenAccepted(hdr) /\ ~hdr.cred.admin) =>
                 /\ r.resp = <<Response(403, "Admin access required")>>
                 /\ r.jwt_next /\ ~r.handler /\ r.store = store
           /\ r.handler <=> (TokenAccepted(hdr) /\ hdr.cred.admin)
    /\ ~RequireAdmin(NoIdentity).pass
    /\ RequireAdmin(NoIdentity).resp = <<Response(403, "Admin access required")>>

C3_Witness ==
    /\ last.route = "admin_create" /\ ~last.handler
    /\ last.resp = <<Response(403, "Admin access required")>>

\* the requests that reach UserHandler.Update / Delete: through JWTAuth, or
\* with a context that carries no identity
HandlerCalls(route) ==
    {<<TRUE, hdr, in[1], in[2]>> :
        hdr \in {h \in Headers : TokenAccepted(h)}, in \in RouteInputs(route)}
    \cup {<<FALSE, NoHeader, in[1], in[2]>> : in \in RouteInputs(route)}

\* C4 (as claimed): Update and Delete call the service only when the
\* caller's identity id is the target id or the caller is an admin; every
\* other request with a well-formed id, one without identity included, gets
\* 403 and leaves the store unchanged.
C4_OwnerOrAdminOnly ==
    \A route \in {"update", "delete"} :
        \A c \in HandlerCalls(route) :
            LET r == Serve(route, c[1], store, now, c[2], c[3], c[4])
                id == ParseUint(c[3])
                allowed == \/ r.ctx.has /\ r.ctx.user_id = id.val
                           \/ r.ctx.has /\ r.ctx.is_admin
            IN /\ r.svc # "" => allowed
               /\ (id.ok /\ ~allowed) => (Status(r) = 403 /\ r.store = store)

\* C5: an account that Create persists, on the public and on the admin
\* route, is active and not an admin, whatever the body says.
C5_CreatedActiveNotAdmin ==
    \A route \in {"register", "admin_create"}, hdr \in Headers,
       body \in CreateBodies :
        LET r == Serve(route, TRUE, store, now, hdr, NoId, body)
        IN (r.svc = "Create" /\ r.err = "") =>
              /\ Len(r.store) = Len(store) + 1
              /\ SubSeq(r.store, 1, Len(store)) = store
              /\ r.store[Len(r.store)].is_active
              /\ ~r.store[Len(r.store)].is_admin
              /\ r.store[Len(r.store)].email = body.email
              /\ r.user.is_active /\ ~r.user.is_admin

C5_Witness ==
    /\ last.route = "register" /\ last.svc = "Create"
    /\ last.resp = <<Response(201, "User created successfully")>>
    /\ last.body.is_admin
    /\ store # <<>> /\ ~store[Len(store)].is_admin

LoginBody(e, pw) == [email |-> e, password |-> pw, json |-> TRUE]

\* C6 (as claimed): a login with an email no account has and a login with
\* an existing account's email and a wrong password are answered alike,
\* whatever state the account is in.
C6_SameFailure ==
    \A i \in DOMAIN store :
        Serve("login", TRUE, store, now, NoHeader, NoId,
              LoginBody(store[i].email, "bad")).resp
        = Serve("login", TRUE, store, now, NoHeader, NoId,
                LoginBody(UnknownEmail, "bad")).resp

\* C7: a login with the right password on a deactivated account fails with
\* account-deactivated, returns no token and leaves the store, last_login
\* included, as it was.
C7_DeactivatedLogin ==
    \A i \in DOMAIN store :
        LET r == Serve("login", TRUE, store, now, NoHeader, NoId,
                       LoginBody(store[i].email, Password))
        IN (~store[i].deleted /\ ~store[i].is_active) =>
              /\ r.resp = <<Response(401, "account is deactivated")>>
              /\ r.token = NoToken
              /\ r.store = store

C7_Witness ==
    /\ last.route = "login" /\ last.body.json /\ last.body.password = Password
    /\ last.resp = <<Response(401, "account is deactivated")>>

\* C8: a login with the right password on an active account succeeds, and
\* its token, parsed at any instant up to its expiry, yields the id, email
\* and admin flag the store holds for the account; its expiry is the
\* instant of issue plus the configured lifetime.
C8_TokenRoundTrip ==
    \A i \in DOMAIN store :
        LET r == Serve("login", TRUE, store, now, NoHeader, NoId,
                       LoginBody(store[i].email, Password))
        IN (~store[i].deleted /\ store[i].is_active) =>
              /\ r.resp = <<Response(200, "Login successful")>>
              /\ r.token.exp = now + TokenTTL
              /\ \A t \in now..r.token.exp :
                    LET p == ValidateJWT(r.token, Secret, t)
                    IN /\ p.ok
                       /\ p.claims.UserID = i
                       /\ p.claims.Email = store[i].email
                       /\ p.claims.IsAdmin = store[i].is_admin

C8_Witness ==
    /\ last.route = "login"
    /\ last.resp = <<Response(200, "Login successful")>>
    /\ \E tok \in tokens : tok.admin /\ tok.exp = now + TokenTTL

\* C9: Create fails with email-taken when a non-deleted account holds the
\* email, and with username-taken when the email is free and a non-deleted
\* account holds the username; the store is unchanged in both cases.
C9_CreateConflicts ==
    \A body \in CreateBodies :
        LET r == Serve("register", TRUE, store, now, NoHeader, NoId, body)
        IN (body.json /\ ValidCreate(DecodeCreate(body))) =>
              /\ EmailHeld(store, body.email) =>
                    /\ r.err = "user with this email already exists"
                    /\ r.resp = <<Response(400, r.err)>>
                    /\ r.store = store
              /\ (~EmailHeld(store, body.email)
                  /\ UsernameHeld(store, body.username)) =>
                    /\ r.err = "username is already taken"
                    /\ r.resp = <<Response(400, r.err)>>
                    /\ r.store = store

C9_Witness ==
    /\ last.route = "register"
    /\ last.resp = <<Response(400, "username is already taken")>>
    /\ ~EmailHeld(store, last.body.email)

\* the calls ran concurrently: one began while the other was in flight
Raced(p, q) == q \in procs[p].with \/ p \in procs[q].with

Succeeded(p) == procs[p].pc = "done" /\ procs[p].err = ""

NoDuplicates ==
    \A i, j \in DOMAIN store :
        (i # j /\ ~store[i].deleted /\ ~store[j].deleted) =>
            (store[i].email # store[j].email
             /\ store[i].username # store[j].username)

\* C10 (as claimed): under every interleaving of Create, Update and Delete
\* calls no two non-deleted accounts share an email or a username, and of
\* two Creates with the same email that race at most one succeeds.
C10_UniqueAndOneWinner ==
    /\ NoDuplicates
    /\ \A p, q \in DOMAIN procs :
        (/\ p # q /\ procs[p].op = "create" /\ procs[q].op = "create"
         /\ procs[p].creq.Email = procs[q].creq.Email /\ Raced(p, q))
        => ~(Succeeded(p) /\ Succeeded(q))

\* C10 (amended): no two non-deleted accounts share an email or a username;
\* two racing Creates with the same email both succeed only when an Update
\* that succeeded gave another email to the account one of them created,
\* and the two accounts never hold the email together.
C10_UniqueUnlessEmailMoved ==
    /\ NoDuplicates
    /\ \A p, q \in DOMAIN procs :
        (/\ p # q /\ procs[p].op = "create" /\ procs[q].op = "create"
         /\ procs[p].creq.Email = procs[q].creq.Email /\ Raced(p, q)
         /\ Succeeded(p) /\ Succeeded(q))
        => /\ \E u \in DOMAIN procs :
                /\ procs[u].op = "update" /\ Succeeded(u)
                /\ procs[u].id \in {procs[p].id, procs[q].id}
                /\ procs[u].ureq.Email # <<>>
                /\ procs[u].ureq.Email[1] # procs[p].creq.Email
           /\ ~(store[procs[p].id].email = procs[p].creq.Email
                /\ store[procs[q].id].email = procs[q].creq.Email)

\* two Creates with the same email have raced; one succeeded, the other was
\* stopped by the table's constraint after both pre-checks had passed
C10_Witness ==
    \E p, q \in DOMAIN procs :
        /\ p # q /\ procs[p].op = "create" /\ procs[q].op = "create"
        /\ procs[p].creq.Email = procs[q].creq.Email /\ Raced(p, q)
        /\ procs[p].creq.Username # procs[q].creq.Username
        /\ Succeeded(p)
        /\ procs[q].pc = "done" /\ procs[q].err = "failed to create user"

\* the representation carries neither the password digest nor the deletion
\* marker of the row
NoDigest(user) == "password" \notin DOMAIN user /\ "deleted" \notin DOMAIN user

\* C11: after a successful registration the new account is found by its id,
\* by its email and by its username, and the representation Create returns,
\* like the one every read returns, has no password field.
C11_RetrievableNoDigest ==
    /\ \A body \in CreateBodies :
          LET r == Serve("register", TRUE, store, now, NoHeader, NoId, body)
          IN Status(r) = 201 =>
               /\ NoDigest(r.user)
               /\ r.user.email = body.email /\ r.user.username = body.username
               /\ GetByID(r.store, r.user.id) # NoUser
               /\ GetByID(r.store, r.user.id) = GetByEmail(r.store, body.email)
               /\ GetByID(r.store, r.user.id)
                     = GetByUsername(r.store, body.username)
               /\ SvcGetByID(r.store, r.user.id).user = r.user
               /\ SvcGetByEmail(r.store, body.email).user = r.user
    /\ \A route \in {"get", "profile", "login"}, hdr \in Headers :
          \A in \in RouteInputs(route) :
             NoDigest(Serve(route, TRUE, store, now, hdr, in[1], in[2]).user)

\* an account that was registered has been read back by its id
C11_Witness ==
    /\ last.route = "get" /\ last.handler
    /\ last.resp = <<Response(200, "User retrieved successfully")>>

\* C12 (as claimed): once a Delete call on an id has succeeded, the row is
\* still in the store with its deletion marker set and get-by-id does not
\* return the account, whatever other calls ran before, with or after it.
C12_DeleteIrreversible ==
    \A p \in DOMAIN procs :
        (procs[p].op = "delete" /\ Succeeded(p)) =>
            /\ procs[p].id \in DOMAIN store
            /\ store[procs[p].id].deleted
            /\ GetByID(store, procs[p].id) = NoUser
            /\ SvcGetByID(store, procs[p].id).err = "user not found"

\* the fields of a row that a request leaves out are the stored ones
KeepsAbsent(old, new, req) ==
    /\ req.Email = <<>> => new.email = old.email
    /\ req.Username = <<>> => new.username = old.username
    /\ req.FirstName = <<>> => new.first_name = old.first_name
    /\ req.LastName = <<>> => new.last_name = old.last_name
    /\ req.IsActive = <<>> => new.is_active = old.is_active
    /\ new.id = old.id /\ new.password = old.password
    /\ new.is_admin = old.is_admin /\ new.last_login = old.last_login
    /\ new.deleted = old.deleted

\* C13: an Update request that carries only first_name changes the first
\* name of the target account and nothing else in the store; whatever the
\* request carries, every field it leaves out keeps its stored value and
\* every other account is unchanged.
C13_PartialUpdateFrame ==
    \A hdr \in Headers, idStr \in IdStrs, body \in FieldUpdateBodies :
        LET r == Serve("update", TRUE, store, now, hdr, idStr, body)
            req == DecodeUpdate(body)
            id == ParseUint(idStr).val
        IN /\ Len(r.store) = Len(store)
           /\ Status(r) # 200 => r.store = store
           /\ Status(r) = 200 =>
                /\ \A j \in DOMAIN store : j # id => r.store[j] = store[j]
                /\ KeepsAbsent(store[id], r.store[id], req)
                /\ (req.Email = <<>> /\ req.Username = <<>>
                    /\ req.IsActive = <<>>) =>
                       r.store = [store EXCEPT ![id].first_name = req.FirstName[1]]

\* an Update that carried only first_name has succeeded: the account has the
\* new first name and is otherwise as registered
C13_Witness ==
    /\ last.route = "update" /\ last.body = UpdateBody(<<>>, <<>>, <<"G">>, <<>>)
    /\ last.resp = <<Response(200, "User updated successfully")>>
    /\ \E i \in DOMAIN store :
          store[i].first_name = "G" /\ store[i].last_name = "L"
          /\ store[i].is_active

\* C14: OptionalAuth passes every request on and writes no response; the
\* context it hands on carries the claims of the token when the header is
\* present, starts with "Bearer ", carries a non-empty token and the token
\* validates, and carries no identity in every other case.
C14_OptionalNeverRejects ==
    \A hdr \in Headers :
        LET g == OptionalAuth(hdr, NoIdentity, now)
        IN /\ g.pass /\ g.resp = <<>>
           /\ g.ctx.has <=> TokenAccepted(hdr)
           /\ ~TokenAccepted(hdr) => g.ctx = NoIdentity
           /\ TokenAccepted(hdr) =>
                /\ g.ctx.user_id = hdr.cred.uid
                /\ g.ctx.user_email = hdr.cred.email
                /\ g.ctx.is_admin = hdr.cred.admin

\* the gate has passed on a request whose token had expired, and the
\* handler behind it found no identity
C14_Witness ==
    /\ last.route = "optional" /\ last.handler
    /\ last.resp = <<Response(401, "User not authenticated")>>
    /\ \E tok \in tokens : tok.exp < now /\ last.body = Bearer(tok)

\* C15: Logout answers every caller the mandatory gate lets through with
\* 200, leaves the account store as it was and issues or revokes nothing:
\* the same token still passes the gate at every later time up to its own
\* expiry.
C15_LogoutStateless ==
    \A hdr \in Headers :
        TokenAccepted(hdr) =>
            LET r == Serve("logout", TRUE, store, now, hdr, NoId, NoBody)
            IN /\ r.handler /\ r.svc = "Logout"
               /\ r.resp = <<Response(200, "Logout successful")>>
               /\ r.store = store
               /\ r.token = NoToken
               /\ \A t \in now .. MaxTime + TokenTTL :
                     t <= hdr.cred.exp => JWTAuth(hdr, NoIdentity, t).pass

C15_Witness ==
    /\ last.route = "logout" /\ last.handler /\ last.svc = "Logout"
    /\ last.resp = <<Response(200, "Logout successful")>>
    /\ \E tok \in tokens : TokenAccepted(Bearer(tok))

\* the message is a service error that wraps the driver's error text
CarriesStoreDetail(msg) ==
    \E text \in {"failed to check user existence",
                 "failed to check username availability",
                 "failed to check email availability",
                 "failed to create user", "failed to get user",
                 "failed to update user", "failed to delete user",
                 "failed to list users", "failed to count users",
                 "failed to authenticate"} : msg = Errorf(text, StoreError)

\* C16 (as claimed): whenever a store call of an API operation fails, the
\* client gets one response, a 500 whose message carries nothing of the
\* store's error.
C16_StoreFailureIs500 ==
    \A route \in FaultRoutes, hdr \in Headers, fail \in RepoCalls :
        \A in \in FaultInputs(route) :
            LET r == ServeFault(route, store, now, hdr, in[1], in[2], fail)
            IN r.failed # "" =>
                 /\ Len(r.resp) = 1 /\ r.resp[1].status = 500
                 /\ ~CarriesStoreDetail(r.resp[1].msg)

(***************************************************************************)
(* Recovery.  The handler chain of a request runs under the deferred       *)
(* recover() of the Recovery middleware.  `at` is the place where the      *)
(* chain panics: "before" any store call or write, in the "service" once   *)
(* its store calls are done, or in the "encode" step of WriteJSONResponse, *)
(* after WriteHeader has sent the status.  What the chain did up to that   *)
(* place stays done.  A ResponseWriter keeps the status of its first       *)
(* WriteHeader, so the status the client gets is that of resp[1].          *)
(***************************************************************************)
PanicPoints == {"before", "service", "encode"}

AllRoutes == ProtectedRoutes \cup {"register", "login"}

\* next.ServeHTTP(w, r) with a panic at `at`, if the request gets that far
Chain(route, s, t, hdr, idStr, body, at) ==
    Bind(Serve(route, TRUE, s, t, hdr, idStr, body), LAMBDA r :
       CASE at = "before" ->
              [store |-> s, resp |-> <<>>, svc |-> "", panicked |-> TRUE]
         [] at = "service" /\ r.svc # "" ->
              [store |-> r.store, resp |-> <<>>, svc |-> r.svc,
               panicked |-> TRUE]
         [] at = "encode" ->
              [store |-> r.store, resp |-> r.resp, svc |-> r.svc,
               panicked |-> TRUE]
         [] OTHER ->
              [store |-> r.store, resp |-> r.resp, svc |-> r.svc,
               panicked |-> FALSE])

\* Recovery without the recover(): the panic unwinds to the server, which
\* drops the connection
RecoveryRethrow(out) == out

\* middleware.Recovery: the deferred function writes a 500 when the chain
\* panicked
Recovery(out) ==
    IF out.panicked
    THEN [out EXCEPT
            !.resp = @ \o <<Response(500, "Internal server error")>>]
    ELSE out

ServePanic(route, s, t, hdr, idStr, body, at) ==
    Recovery(Chain(route, s, t, hdr, idStr, body, at))

\* a request whose chain panics; what the client saw of it is kept with the
\* place of the panic instead of the body.  The client reads no token from
\* a response that was cut short.
PanickingRequest ==
    \E route \in AllRoutes, at \in PanicPoints :
       \E hdr \in {NoHeader} \cup {Bearer(tok) : tok \in tokens} :
       \E in \in RouteInputs(route) :
          \E r \in {ServePanic(route, store, now, hdr, in[1], in[2], at)} :
             /\ r.panicked
             /\ Len(r.store) <= MaxUsers
             /\ store' = r.store
             /\ last' = Seen(route, [panicked |-> at], TRUE, r.resp, r.svc)
             /\ UNCHANGED <<tokens, now, procs, srv>>

NextPanic == Register \/ Login \/ Profile \/ PanickingRequest

SpecPanic == Init /\ [][NextPanic]_vars

\* the store a panicking request leaves is the one it found or the one the
\* same request leaves when nothing panics
StoreAsServed(route, hdr, in, r) ==
    r.store \in {store, Serve(route, TRUE, store, now, hdr, in[1], in[2]).store}

Base == 256

IntLimbs == 8

WideLimbs == 12

MaxLimit == 100

RECURSIVE Word(_, _)
\* the k-byte value of a small natural number
Word(n, k) == IF k = 0 THEN <<>> ELSE <<n % Base>> \o Word(n \div Base, k - 1)

\* math.MaxInt64 at k = 8
MaxInt(k) == [i \in 1..k |-> IF i = k THEN Base \div 2 - 1 ELSE Base - 1]

MinusOne(k) == [i \in 1..k |-> Base - 1]

IsNeg(a) == a[Len(a)] >= Base \div 2

IsZero(a) == \A i \in DOMAIN a : a[i] = 0

IsPos(a) == ~IsNeg(a) /\ ~IsZero(a)

\* sign extension (k > Len(a)) or truncation to k bytes
Extend(a, k) ==
    [i \in 1..k |-> IF i <= Len(a) THEN a[i]
                    ELSE IF IsNeg(a) THEN Base - 1 ELSE 0]

\* the value of a word known to fit two bytes
Small(a) == a[1] + Base * a[2]

\* 0 <= a <= n, for a small n
AtMost(a, n) == (\A i \in DOMAIN a : i > 2 => a[i] = 0) /\ Small(a) <= n

RECURSIVE AddFrom(_, _, _, _)
AddFrom(a, b, i, carry) ==
    IF i > Len(a) THEN <<>>
    ELSE Bind(a[i] + b[i] + carry, LAMBDA sum :
            <<sum % Base>> \o AddFrom(a, b, i + 1, sum \div Base))

\* a + b, wrapping at the width of a
Add(a, b) == AddFrom(a, b, 1, 0)

\* -a, wrapping
Neg(a) == Add([i \in DOMAIN a |-> Base - 1 - a[i]], Word(1, Len(a)))

RECURSIVE MulFrom(_, _, _, _)
MulFrom(a, m, i, carry) ==
    IF i > Len(a) THEN <<>>
    ELSE Bind(a[i] * m + carry, LAMBDA prod :
            <<prod % Base>> \o MulFrom(a, m, i + 1, prod \div Base))

\* a * m for a small m >= 0, wrapping at the width of a
MulSmall(a, m) == MulFrom(a, m, 1, 0)

RECURSIVE DivFrom(_, _, _, _)
DivFrom(a, d, i, rem) ==
    IF i = 0 THEN <<>>
    ELSE Bind(rem * Base + a[i], LAMBDA x :
            DivFrom(a, d, i - 1, x % d) \o <<x \div d>>)

\* a / d for a small d > 0: Go's division, truncated towards zero
DivSmall(a, d) ==
    IF IsNeg(a) THEN Neg(DivFrom(Neg(a), d, Len(a), 0))
    ELSE DivFrom(a, d, Len(a), 0)

RECURSIVE AtoiFrom(_, _, _)
AtoiFrom(str, i, acc) ==
    IF i > Len(str) THEN acc
    ELSE Bind(Add(MulSmall(acc, 10), Word(DigitValue(str[i]), Len(acc))),
              LAMBDA next : AtoiFrom(str, i + 1, next))

\* strconv.Atoi on an unsigned decimal string: an error for the empty
\* string, for a character that is no digit and for a value out of int's
\* range
Atoi(str) ==
    IF str = <<>> \/ \E k \in DOMAIN str : ~IsDigit(str[k])
    THEN [ok |-> FALSE, val |-> Word(0, IntLimbs)]
    ELSE Bind(AtoiFrom(str, 1, Word(0, WideLimbs)), LAMBDA v :
            IF Extend(Extend(v, IntLimbs), WideLimbs) = v
            THEN [ok |-> TRUE, val |-> Extend(v, IntLimbs)]
            ELSE [ok |-> FALSE, val |-> Word(0, IntLimbs)])

\* offset := (page - 1) * limit
ListOffset(page, limit) == MulSmall(Add(page, MinusOne(Len(page))), limit)

RECURSIVE Descending(_)
\* Order("created_at DESC"): ids are handed out in the order of creation
Descending(S) ==
    IF S = {} THEN <<>>
    ELSE Bind(CHOOSE m \in S : \A x \in S : x <= m, LAMBDA m :
            <<m>> \o Descending(S \ {m}))

\* the number of rows an OFFSET clause skips out of n
Skipped(offset, n) ==
    IF ~IsPos(offset) THEN 0 ELSE IF AtMost(offset, n) THEN Small(offset) ELSE n

\* userRepository.List: LIMIT only when limit > 0, OFFSET only when
\* offset > 0
RepoList(s, limit, offset) ==
    Bind(Descending(Visible(s)), LAMBDA rows :
    Bind(Skipped(offset, Len(rows)), LAMBDA skip :
       SubSeq(rows, skip + 1,
              IF limit > 0 /\ skip + limit < Len(rows) THEN skip + limit
              ELSE Len(rows))))

\* userRepository.Count
RepoCount(s) == Word(Cardinality(Visible(s)), IntLimbs)

\* userService.List: the page, the total and the offset it read with
SvcList(s, page, limit) ==
    Bind(ListOffset(page, limit), LAMBDA offset :
    Bind(RepoList(s, limit, offset), LAMBDA rows :
       [offset |-> offset,
        users |-> [k \in DOMAIN rows |-> ToResponse(s[rows[k]])], total |-> RepoCount(s)]))

\* totalPages := int((total + int64(limit) - 1) / int64(limit))
TotalPages(total, limit) ==
    DivSmall(Add(Add(total, Word(limit, Len(total))), MinusOne(Len(total))),
             limit)

\* utils.WritePaginatedResponse: the pagination object of the response
WritePaginatedResponse(data, total, page, limit) ==
    [page |-> page, limit |-> limit, total |-> total, data |-> data,
     total_pages |-> TotalPages(total, limit)]

\* UserHandler.List that accepts every positive limit
HandleListUnclamped(s, pageStr, limitStr) ==
    Bind(Atoi(pageStr), LAMBDA p :
    Bind(Atoi(limitStr), LAMBDA l :
    Bind(IF p.ok /\ IsPos(p.val) THEN p.val ELSE Word(1, IntLimbs),
         LAMBDA page :
    Bind(IF l.ok /\ IsPos(l.val) /\ AtMost(l.val, 2 * MaxLimit)
         THEN Small(l.val) ELSE 10, LAMBDA limit :
    Bind(SvcList(s, page, limit), LAMBDA res :
       [resp |-> <<Response(200, "Users retrieved successfully")>>,
        offset |-> res.offset,
        pagination |->
           WritePaginatedResponse(res.users, res.total, page, limit)])))))

\* UserHandler.List: page and limit of the query string, 1 and 10 when
\* absent or not acceptable
HandleList(s, pageStr, limitStr) ==
    Bind(Atoi(pageStr), LAMBDA p :
    Bind(Atoi(limitStr), LAMBDA l :
    Bind(IF p.ok /\ IsPos(p.val) THEN p.val ELSE Word(1, IntLimbs),
         LAMBDA page :
    Bind(IF l.ok /\ IsPos(l.val) /\ AtMost(l.val, MaxLimit)
         THEN Small(l.val) ELSE 10, LAMBDA limit :
    Bind(SvcList(s, page, limit), LAMBDA res :
       [resp |-> <<Response(200, "Users retrieved successfully")>>,
        offset |-> res.offset,
        pagination |->
           WritePaginatedResponse(res.users, res.total, page, limit)])))))

\* query strings
MaxIntStr ==
    <<"9", "2", "2", "3", "3", "7", "2", "0", "3", "6", "8", "5", "4", "7",
      "7", "5", "8", "0", "7">>

PageStrs ==
    {<<>>, <<"0">>, <<"2">>, <<"x">>, MaxIntStr, MaxIntStr \o <<"0">>}

LimitStrs ==
    {<<>>, <<"1">>, <<"1", "0", "0">>, <<"1", "0", "1">>}

\* GET /users behind the mandatory gate
ListUsers ==
    \E hdr \in {NoHeader} \cup {Bearer(tok) : tok \in tokens} :
       \E pageStr \in PageStrs, limitStr \in LimitStrs :
          \E g \in {JWTAuth(hdr, NoIdentity, now)} :
             \E h \in {HandleList(store, pageStr, limitStr)} :
                /\ last' = IF g.pass
                           THEN Seen("list", [offset |-> h.offset,
                                              pagination |-> h.pagination,
                                              query |-> <<pageStr, limitStr>>],
                                     TRUE, h.resp, "List")
                           ELSE Seen("list", NoBody, FALSE, g.resp, "")
                /\ UNCHANGED <<store, tokens, now, procs, srv>>

\* the arguments of a direct call
PageWords ==
    {Word(n, IntLimbs) : n \in 1..3}
    \cup {MaxInt(IntLimbs), Extend(DivSmall(MaxInt(IntLimbs), 10), IntLimbs)}

Limits == {1, 2, 3, 10, MaxLimit}

TotalWords ==
    {Word(n, IntLimbs) : n \in {0, 1, 9, 10, 11, 25}} \cup {MaxInt(IntLimbs)}

\* utils.WritePaginatedResponse called with any total
Paginate ==
    \E total \in TotalWords, limit \in Limits :
       /\ last' = Seen("paginate",
                       [pagination |->
                           WritePaginatedResponse(<<>>, total,
                                                  Word(1, IntLimbs), limit)],
                       TRUE, <<>>, "")
       /\ UNCHANGED <<store, tokens, now, procs, srv>>

NextList == Register \/ Login \/ ListUsers \/ Paginate

SpecList == Init /\ [][NextList]_vars

\* the least q with q * limit >= n
CeilDiv(n, limit) == CHOOSE q \in 0..n : q * limit >= n /\ (q - 1) * limit < n

\* the ids on the rows from position offset + 1 on, at most limit of them,
\* for the mathematical offset (a wide word, never negative)
RowsAt(s, exact, limit) ==
    LET rows == Descending(Visible(s))
        skip == IF AtMost(exact, Len(rows)) THEN Small(exact) ELSE Len(rows)
    IN SubSeq(rows, skip + 1,
              IF skip + limit < Len(rows) THEN skip + limit ELSE Len(rows))

\* C18 (as claimed): for every page >= 1 and limit >= 1 List reads with
\* offset (page-1)*limit and with that limit, and for every total >= 0 the
\* response reports total_pages = ceil(total/limit); limit 10, page 2 gives
\* offset 10, total 25 with limit 10 gives 3 pages, total 0 gives 0.
C18_PaginationArithmetic ==
    /\ \A page \in PageWords, limit \in Limits :
          LET r == SvcList(store, page, limit)
              exact == ListOffset(Extend(page, WideLimbs), limit)
              rows == RowsAt(store, exact, limit)
          IN /\ Extend(r.offset, WideLimbs) = exact
             /\ Len(r.users) = Len(rows)
             /\ \A k \in DOMAIN rows : r.users[k].id = rows[k]
    /\ \A total \in TotalWords, limit \in Limits :
          /\ Extend(TotalPages(total, limit), WideLimbs)
                = TotalPages(Extend(total, WideLimbs), limit)
          /\ AtMost(total, MaxLimit) =>
                TotalPages(total, limit)
                   = Word(CeilDiv(Small(total), limit), IntLimbs)
    /\ ListOffset(Word(2, IntLimbs), 10) = Word(10, IntLimbs)
    /\ TotalPages(Word(25, IntLimbs), 10) = Word(3, IntLimbs)
    /\ TotalPages(Word(0, IntLimbs), 10) = Word(0, IntLimbs)

\* the claimed arithmetic on the arguments whose results fit a 64-bit int
PaginationInRange ==
    /\ \A page \in PageWords, limit \in Limits :
          LET r == SvcList(store, page, limit)
              exact == ListOffset(Extend(page, WideLimbs), limit)
              rows == RowsAt(store, exact, limit)
          IN Extend(Extend(exact, IntLimbs), WideLimbs) = exact =>
                /\ Extend(r.offset, WideLimbs) = exact
                /\ Len(r.users) = Len(rows)
                /\ \A k \in DOMAIN rows : r.users[k].id = rows[k]
    /\ \A total \in TotalWords, limit \in Limits :
          /\ ~IsNeg(Add(total, Word(limit - 1, IntLimbs))) =>
                Extend(TotalPages(total, limit), WideLimbs)
                   = TotalPages(Extend(total, WideLimbs), limit)
          /\ AtMost(total, MaxLimit) =>
                TotalPages(total, limit)
                   = Word(CeilDiv(Small(total), limit), IntLimbs)
    /\ ListOffset(Word(2, IntLimbs), 10) = Word(10, IntLimbs)
    /\ TotalPages(Word(25, IntLimbs), 10) = Word(3, IntLimbs)
    /\ TotalPages(Word(0, IntLimbs), 10) = Word(0, IntLimbs)

\* the page MaxInt64 with limit 100 was served with the first rows of the
\* table: the offset wrapped to -200
C18_Witness ==
    /\ last.route = "list" /\ last.handler
    /\ last.body.offset = Neg(Word(200, IntLimbs))
    /\ last.body.pagination.page = MaxInt(IntLimbs)
    /\ Len(last.body.pagination.data) > 0

(***************************************************************************)
(* The authentication service called directly: no route leads to           *)
(* RefreshToken or ValidateToken.  The caller presents a token it holds or *)
(* a forged one; what it got back is kept in place of the body.            *)
(***************************************************************************)
Presented == tokens \cup {ForgedToken}

RefreshCall ==
    \E tok \in Presented :
       \E r \in {RefreshToken(store, tok, now)} :
          /\ last' = Seen("refresh", [err |-> r.err, token |-> r.token,
                                      cred |-> tok], FALSE, <<>>,
                          "RefreshToken")
          /\ tokens' \in Keep(tokens, r.token)
          /\ UNCHANGED <<store, now, procs, srv>>

ValidateCall ==
    \E tok \in Presented :
       \E r \in {ValidateToken(store, tok, now)} :
          /\ last' = Seen("validate", [user |-> r.user, err |-> r.err,
                                       cred |-> tok], FALSE, <<>>,
                          "ValidateToken")
          /\ UNCHANGED <<store, tokens, now, procs, srv>>

\* PUT /users/{id} that moves the account to another email or switches it
\* off
AccountChange ==
    \E q \in Gated(IdStrs, {UpdateBody(<<"b@x">>, <<>>, <<>>, <<>>),
                            UpdateBody(<<>>, <<>>, <<>>, <<FALSE>>)}) :
        Request("update", TRUE, q[1], q[2], q[3])

NextAuth ==
    \/ Register \/ Login \/ AccountChange \/ Delete \/ Tick
    \/ RefreshCall \/ ValidateCall

SpecAuth == Init /\ [][NextAuth]_vars

\* no non-deleted, active account has the token's user id
Revoked(tok) ==
    \/ GetByID(store, tok.uid) = NoUser
    \/ ~GetByID(store, tok.uid).is_active

\* C19: RefreshToken succeeds exactly for the tokens that parse, whatever
\* the store says of the account (deleted, deactivated or never there); the
\* new token carries the same user id, email and admin flag and expires ttl
\* from now; for a token that does not parse it returns an error and no
\* token.
C19_RefreshIgnoresStore ==
    \A tok \in Presented :
        LET r == RefreshToken(store, tok, now)
        IN IF ValidateJWT(tok, Secret, now).ok
           THEN /\ r.err = ""
                /\ r.token.uid = tok.uid /\ r.token.email = tok.email
                /\ r.token.admin = tok.admin
                /\ r.token.exp = now + TokenTTL
                /\ ValidateJWT(r.token, Secret, now).ok
           ELSE r.err # "" /\ r.token = NoToken

\* a token of an account that is gone or switched off was refreshed
C19_Witness ==
    /\ last.route = "refresh" /\ last.body.err = ""
    /\ last.body.cred.exp < last.body.token.exp
    /\ last.body.token \in tokens
    /\ Revoked(last.body.token)

\* C20: ValidateToken fails with "invalid token" when the token does not
\* parse, whatever the store holds; else with "user not found" when no
\* non-deleted account has the claims' user id, with "user account is
\* deactivated" when that account's active flag is off, and otherwise
\* returns the row of the store, not the claims of the token.
C20_ValidateTokenRefetches ==
    \A tok \in Presented :
        LET r == ValidateToken(store, tok, now)
            parsed == ValidateJWT(tok, Secret, now)
            row == GetByID(store, tok.uid)
        IN /\ ~parsed.ok =>
                /\ r.err = "invalid token" /\ r.user = NoUser
                /\ r = ValidateToken(<<>>, tok, now)
           /\ parsed.ok /\ row = NoUser =>
                r.err = "user not found" /\ r.user = NoUser
           /\ parsed.ok /\ row # NoUser /\ ~row.is_active =>
                r.err = "user account is deactivated" /\ r.user = NoUser
           /\ parsed.ok /\ row # NoUser /\ row.is_active =>
                r.err = "" /\ r.user = store[tok.uid]

\* a token was validated whose account has changed its email since: the
\* account came back with the stored email
C20_Witness ==
    /\ last.route = "validate" /\ last.body.err = ""
    /\ last.body.user = store[last.body.cred.uid]
    /\ last.body.user.email # last.body.cred.email

\* C21 (as claimed): a valid registration fails only when a non-deleted
\* account holds its email or its username; the email and username of a
\* soft-deleted account can be registered again.
C21_DeletedNamesReusable ==
    \A body \in CreateBodies :
        LET r == Serve("register", TRUE, store, now, NoHeader, NoId, body)
        IN (/\ body.json /\ ValidCreate(DecodeCreate(body))
            /\ ~EmailHeld(store, body.email)
            /\ ~UsernameHeld(store, body.username))
           => Status(r) = 201

\* a registration with the email of a soft-deleted account, held by no
\* other account, was refused by the table's unique constraint
C21_Witness ==
    /\ last.route = "register" /\ last.svc = "Create"
    /\ last.resp = <<Response(400, "failed to create user")>>
    /\ ~EmailHeld(store, last.body.email)
    /\ ~UsernameHeld(store, last.body.username)
    /\ \E i \in DOMAIN store :
          store[i].deleted /\ store[i].email = last.body.email

\* update bodies that carry any of the emails and usernames in use, with or
\* without a first name
IdentityUpdateBodies ==
    {UpdateBody(e, u, f, <<>>) :
        e \in {<<>>} \cup {<<x>> : x \in Emails},
        u \in {<<>>} \cup {<<x>> : x \in Usernames},
        f \in {<<>>, <<"G">>}}

\* C22: Update checks an email or username for uniqueness only when it
\* differs from the account's own: a request whose email and username are
\* absent or the current ones succeeds, and a request with a new email (else
\* a new username) that a non-deleted account holds fails with the taken
\* error and leaves the whole store as it was, the other fields of the
\* request included.
C22_UpdateUniqueness ==
    \A hdr \in Headers, idStr \in IdStrs, body \in IdentityUpdateBodies :
        LET r == Serve("update", TRUE, store, now, hdr, idStr, body)
            req == DecodeUpdate(body)
            row == GetByID(store, ParseUint(idStr).val)
            newEmail == req.Email # <<>> /\ req.Email[1] # row.email
            newUsername == req.Username # <<>> /\ req.Username[1] # row.username
        IN (r.svc = "Update" /\ row # NoUser) =>
              /\ (~newEmail /\ ~newUsername) =>
                    r.resp = <<Response(200, "User updated successfully")>>
              /\ (newEmail /\ EmailHeld(store, req.Email[1])) =>
                    /\ r.resp = <<Response(400, "email is already taken")>>
                    /\ r.store = store
              /\ (/\ ~(newEmail /\ EmailHeld(store, req.Email[1]))
                  /\ newUsername /\ UsernameHeld(store, req.Username[1])) =>
                    /\ r.resp = <<Response(400, "username is already taken")>>
                    /\ r.store = store

\* an update that carried another account's email together with a first
\* name was refused, and no account got the first name
C22_Witness ==
    /\ last.route = "update"
    /\ last.body = UpdateBody(<<"a@x">>, <<>>, <<"G">>, <<>>)
    /\ last.resp = <<Response(400, "email is already taken")>>
    /\ \A i \in DOMAIN store : store[i].first_name # "G"
    /\ \E i, j \in DOMAIN store : i # j /\ store[i].email = "a@x"

\* C23: when the password check and the token succeed and UpdateLastLogin
\* fails, Login returns the same token and user as without the failure, with
\* no error, and the handler answers 200; and whatever call fails, Login
\* writes last_login only when it also returns a token and no error.
C23_LastLoginBestEffort ==
    \A body \in LoginBodies :
        (body.json /\ ValidLogin(DecodeLogin(body))) =>
            LET req == DecodeLogin(body)
                ok == SvcLogin(store, req, now)
                f == SvcLoginFault(store, req, now, "UpdateLastLogin")
                r == ServeFault("login", store, now, NoHeader, NoId, body,
                                "UpdateLastLogin")
            IN /\ ok.err = "" =>
                    /\ f.failed = "UpdateLastLogin" /\ f.err = ""
                    /\ f.token = ok.token /\ f.token # NoToken
                    /\ f.user = ok.user /\ f.store = store
                    /\ r.resp = <<Response(200, "Login successful")>>
                    /\ r.token = ok.token
               /\ ok.err # "" => f.err = ok.err /\ f.failed = ""
               /\ \A fail \in RepoCalls \cup {"GenerateToken", ""} :
                     LET g == SvcLoginFault(store, req, now, fail)
                     IN /\ g.store # store => (g.err = "" /\ g.token # NoToken)
                        /\ (fail = "GenerateToken" /\ ok.err = "") =>
                              (g.err # "" /\ g.store = store)

\* a login went through although its last-login stamp failed: the client
\* holds the token and the account has never been stamped
C23_Witness ==
    /\ last.route = "login" /\ last.body = [failed |-> "UpdateLastLogin"]
    /\ last.resp = <<Response(200, "Login successful")>>
    /\ \E tok \in tokens :
          /\ tok.exp = now + TokenTTL
          /\ store[tok.uid].last_login = 0

\* C24: Delete of an id with no live account (never created or already soft
\* deleted) fails with "user not found" and leaves the store as it was; of
\* two successive Deletes of a live account the first succeeds and marks the
\* row deleted, the second fails with "user not found"; the handler answers
\* the failure with 400 and the store unchanged.
C24_DeleteMissingIsNotFound ==
    /\ \A id \in 0..(MaxUsers + 1) :
          LET first == SvcDelete(store, id)
              second == SvcDelete(first.store, id)
          IN /\ id \notin Visible(store) =>
                   (first.err = "user not found" /\ first.store = store)
             /\ id \in Visible(store) =>
                   /\ first.err = "" /\ first.store[id].deleted
                   /\ second.err = "user not found"
                   /\ second.store = first.store
    /\ \A hdr \in Headers, idStr \in IdStrs :
          LET r == Serve("delete", TRUE, store, now, hdr, idStr, NoBody)
          IN (r.svc = "Delete" /\ ParseUint(idStr).val \notin Visible(store))
                => (r.resp = <<Response(400, "user not found")>>
                    /\ r.store = store)

\* an account was deleted and a further Delete of a missing account has just
\* been refused
C24_Witness ==
    /\ last.route = "delete" /\ last.svc = "Delete"
    /\ last.resp = <<Response(400, "user not found")>>
    /\ \E i \in DOMAIN store : store[i].deleted

\* two Update calls on one account that carry disjoint fields: p sets only
\* the email, q sets only the username
DisjointUpdates(p, q) ==
    /\ p # q /\ procs[p].op = "update" /\ procs[q].op = "update"
    /\ procs[p].id = procs[q].id
    /\ procs[p].ureq.Email # <<>> /\ procs[p].ureq.Username = <<>>
    /\ procs[q].ureq.Username # <<>> /\ procs[q].ureq.Email = <<>>

\* no other call has touched an existing account
OnlyCreatesBeside(p, q) ==
    \A r \in DOMAIN procs \ {p, q} : procs[r].op \in {"", "create"}

\* C25: when two Update calls on the same account that set disjoint fields
\* run concurrently and both complete successfully, the stored account
\* carries both changes.
C25_ConcurrentUpdatesMerge ==
    \A p, q \in DOMAIN procs :
        (/\ DisjointUpdates(p, q) /\ Raced(p, q)
         /\ Succeeded(p) /\ Succeeded(q) /\ OnlyCreatesBeside(p, q))
        => /\ store[procs[p].id].email = procs[p].ureq.Email[1]
           /\ store[procs[p].id].username = procs[q].ureq.Username[1]

\* two concurrent updates, one of the email and one of the username of the
\* same account, have both completed successfully, each with a new value
C25_Witness ==
    \E p, q \in DOMAIN procs :
        /\ DisjointUpdates(p, q) /\ Raced(p, q)
        /\ Succeeded(p) /\ Succeeded(q) /\ OnlyCreatesBeside(p, q)
        /\ procs[p].ureq.Email[1] # procs[p].user.email
        /\ procs[q].ureq.Username[1] # procs[q].user.username

\* C26: no request to any route, from any caller, changes the admin flag of
\* an account: whatever the request, every account of the store keeps its
\* flag and every account the request creates has is_admin = FALSE (the
\* bodies sent carry "is_admin": true).
C26_AdminFlagImmutable ==
    \A route \in AllRoutes, hdr \in {NoHeader} \cup {Bearer(tok) : tok \in tokens} :
        \A q \in RouteInputs(route) :
            LET r == Serve(route, TRUE, store, now, hdr, q[1], q[2])
            IN /\ Len(r.store) >= Len(store)
               /\ \A i \in DOMAIN store :
                     r.store[i].is_admin = store[i].is_admin
               /\ \A i \in DOMAIN r.store \ DOMAIN store :
                     ~r.store[i].is_admin

\* an Update whose body carries "is_admin": true has succeeded; the store
\* holds the seeded admin and an account without the flag
C26_Witness ==
    /\ last.route = "update" /\ last.svc = "Update"
    /\ last.resp = <<Response(200, "User updated successfully")>>
    /\ last.body.is_admin
    /\ \E i, j \in DOMAIN store : ~store[i].is_admin /\ store[j].is_admin

\* the page and the limit a query string stands for
PageAsked(pageStr) ==
    CASE pageStr = <<"2">> -> Word(2, IntLimbs)
      [] pageStr = MaxIntStr -> MaxInt(IntLimbs)
      [] OTHER -> Word(1, IntLimbs)

LimitAsked(limitStr) ==
    CASE limitStr = <<"1">> -> 1
      [] limitStr = <<"1", "0", "0">> -> MaxLimit
      [] OTHER -> 10

\* C27: for every page and limit of the query string the List handler calls
\* the service with page >= 1 and 1 <= limit <= 100: a missing, non-numeric
\* or non-positive page becomes 1, a missing, non-numeric, non-positive or
\* greater-than-100 limit becomes 10, and an acceptable value is passed as
\* it is.
C27_ListArgumentsClamped ==
    \A pageStr \in PageStrs, limitStr \in LimitStrs \cup {<<"0">>, <<"x">>} :
        LET h == HandleList(store, pageStr, limitStr)
        IN /\ IsPos(h.pagination.page)
           /\ h.pagination.limit \in 1..MaxLimit
           /\ h.pagination.page = PageAsked(pageStr)
           /\ h.pagination.limit = LimitAsked(limitStr)

\* a listing asked with limit=101 and a page beyond int's range was served
\* with limit 10 and page 1
C27_Witness ==
    /\ last.route = "list" /\ last.handler
    /\ last.body.query = <<MaxIntStr \o <<"0">>, <<"1", "0", "1">>>>
    /\ last.body.pagination.limit = 10
    /\ last.body.pagination.page = Word(1, IntLimbs)
    /\ last.resp = <<Response(200, "Users retrieved successfully")>>

\* the handler answered without calling the account service
Unserved(h, s) == h.svc = "" /\ h.res = NoCall(s)

\* C28: Create and Login answer 400 without calling the service when the
\* body is not JSON or fails validation, GetByID answers 400 without calling
\* it when the id is not an unsigned integer; otherwise the service is
\* called once and its error is answered 400 by Create, 404 by GetByID and
\* 401 by Login, its success 201, 200 and 200 with the token it returned.
C28_HandlerStatusCodes ==
    /\ \A body \in CreateBodies :
          LET h == HandleCreate(store, body)
          IN IF ~body.json \/ ~ValidCreate(DecodeCreate(body))
             THEN Status(h) = 400 /\ Unserved(h, store)
             ELSE /\ h.svc = "Create"
                  /\ h.res = SvcCreate(store, DecodeCreate(body))
                  /\ Status(h) = IF h.res.err # "" THEN 400 ELSE 201
    /\ \A body \in LoginBodies :
          LET h == HandleLogin(store, body, now)
          IN IF ~body.json \/ ~ValidLogin(DecodeLogin(body))
             THEN Status(h) = 400 /\ Unserved(h, store)
             ELSE /\ h.svc = "Login"
                  /\ h.res = SvcLogin(store, DecodeLogin(body), now)
                  /\ Status(h) = IF h.res.err # "" THEN 401 ELSE 200
                  /\ h.res.err = "" <=> h.res.token # NoToken
    /\ \A idStr \in IdStrs \cup {<<>>} :
          LET h == HandleGetByID(store, idStr)
          IN IF idStr = <<>> \/ \E k \in DOMAIN idStr : ~IsDigit(idStr[k])
             THEN Status(h) = 400 /\ Unserved(h, store)
             ELSE /\ h.svc = "GetByID"
                  /\ h.res = SvcGetByID(store, ParseUint(idStr).val)
                  /\ Status(h) = IF h.res.err # "" THEN 404 ELSE 200

\* GET /users/{id} for an id without account was answered 404 by the
\* service's error, while an account exists
C28_Witness ==
    /\ last.route = "get" /\ last.svc = "GetByID"
    /\ last.resp = <<Response(404, "user not found")>>
    /\ Visible(store) # {}

\* the request contexts a handler can be called with: none of the identity
\* keys set, or the claims of some token
Contexts ==
    {NoIdentity}
    \cup {[is_admin |-> a, has |-> TRUE, user_id |-> id, user_email |-> e] :
            a \in BOOLEAN, id \in 0..(MaxUsers + 1), e \in Emails}

\* C29: without a user id in the context Logout and Profile answer 401 and
\* do not call the service; with one, Logout answers 200 and Profile answers
\* 200 with the account of that id, or 404 when no live account has it.
C29_LogoutProfileIdentity ==
    \A ctx \in Contexts :
        LET out == HandleLogout(store, ctx)
            prof == HandleProfile(store, ctx)
        IN IF ~ctx.has
           THEN /\ out.resp = <<Response(401, "User not authenticated")>>
                /\ prof.resp = <<Response(401, "User not authenticated")>>
                /\ Unserved(out, store) /\ Unserved(prof, store)
           ELSE /\ out.svc = "Logout" /\ Status(out) = 200
                /\ out.res.store = store
                /\ prof.svc = "GetByID" /\ prof.res.store = store
                /\ IF ctx.user_id \in Visible(store)
                   THEN /\ Status(prof) = 200
                        /\ prof.res.user = ToResponse(store[ctx.user_id])
                   ELSE /\ Status(prof) = 404
                        /\ prof.res.user = NoResponse

\* the profile of an account that has been deleted was asked for with the
\* token issued before the deletion, and the answer was 404
C29_Witness ==
    /\ last.route = "profile" /\ last.svc = "GetByID"
    /\ last.resp = <<Response(404, "user not found")>>
    /\ \E tok \in tokens :
          tok.uid \in DOMAIN store /\ store[tok.uid].deleted /\ now <= tok.exp

(***************************************************************************)
(* Start and Shutdown of the server.  `srv` is the Server: where Start is  *)
(* (phase), whether the listener accepts connections, the number of       *)
(* requests being served, the database connection, the ticks left of the  *)
(* shutdown context, the error Start returns, and whether a request ran   *)
(* its store calls on a closed connection.                                 *)
(***************************************************************************)
\* Server.Start: signal.Notify, the goroutine of ListenAndServe is started,
\* and Start blocks on <-quit
Start ==
    /\ srv.phase = "new"
    /\ srv' = [srv EXCEPT !.phase = "waiting"]
    /\ UNCHANGED <<store, tokens, now, last, procs>>

\* the goroutine reaches s.server.ListenAndServe() before Shutdown was called
ListenAndServe ==
    /\ srv.phase \in {"waiting", "signaled"} /\ ~srv.listening
    /\ srv' = [srv EXCEPT !.listening = TRUE]
    /\ UNCHANGED <<store, tokens, now, last, procs>>

\* a connection is accepted and its request handed to the router
Accept ==
    /\ srv.listening /\ srv.inflight < MaxInFlight
    /\ srv' = [srv EXCEPT !.inflight = @ + 1]
    /\ UNCHANGED <<store, tokens, now, last, procs>>

\* a request being served runs its handler, store calls included, and its
\* connection becomes idle
ServeInFlight ==
    /\ srv.inflight > 0
    /\ \E body \in CreateBodies :
         \E r \in {Serve("register", TRUE, store, now, NoHeader, NoId, body)} :
            /\ Len(r.store) <= MaxUsers
            /\ IF srv.db = "open"
               THEN /\ store' = r.store
                    /\ last' = Seen("register", body, r.handler, r.resp, r.svc)
                    /\ srv' = [srv EXCEPT !.inflight = @ - 1]
               ELSE /\ UNCHANGED <<store, last>>
                    /\ srv' = [srv EXCEPT !.inflight = @ - 1,
                                          !.on_closed = r.svc # ""]
    /\ UNCHANGED <<tokens, now, procs>>

\* SIGINT or SIGTERM arrives on quit
Signal ==
    /\ srv.phase = "waiting"
    /\ srv' = [srv EXCEPT !.phase = "signaled"]
    /\ UNCHANGED <<store, tokens, now, last, procs>>

\* Server.Shutdown: the context with its timeout is made and
\* s.server.Shutdown(ctx) closes the listener
ShutdownHTTP ==
    /\ srv.phase = "signaled"
    /\ srv' = [srv EXCEPT !.phase = "draining", !.listening = FALSE,
                          !.left = ShutdownTimeout]
    /\ UNCHANGED <<store, tokens, now, last, procs>>

\* time passes on the shutdown context
ShutdownTick ==
    /\ srv.phase = "draining" /\ srv.left > 0
    /\ srv' = [srv EXCEPT !.left = @ - 1]
    /\ UNCHANGED <<store, tokens, now, last, procs>>

\* s.server.Shutdown(ctx) returns: nil once every connection is idle, the
\* context's error when the deadline passes first; Server.Shutdown returns
\* that error at once
ShutdownReturn ==
    /\ srv.phase = "draining"
    /\ \/ /\ srv.inflight = 0
          /\ srv' = [srv EXCEPT !.phase = "closing"]
       \/ /\ srv.inflight > 0 /\ srv.left = 0
          /\ srv' = [srv EXCEPT !.phase = "failed",
                                !.err = "context deadline exceeded"]
    /\ UNCHANGED <<store, tokens, now, last, procs>>

\* s.db.Close(), and Server.Shutdown returns nil
CloseDB ==
    /\ srv.phase = "closing"
    /\ srv' = [srv EXCEPT !.phase = "done", !.db = "closed"]
    /\ UNCHANGED <<store, tokens, now, last, procs>>

NextShutdown ==
    \/ Start \/ ListenAndServe \/ Accept \/ ServeInFlight \/ Signal
    \/ ShutdownHTTP \/ ShutdownTick \/ ShutdownReturn \/ CloseDB

SpecShutdown == Init /\ [][NextShutdown]_vars

\* the goroutines keep running: Start and Shutdown go on to their next
\* statement, time passes, and a handler that was started returns
SpecShutdownLive ==
    /\ SpecShutdown
    /\ WF_vars(ShutdownHTTP) /\ WF_vars(ShutdownTick)
    /\ WF_vars(ShutdownReturn) /\ WF_vars(CloseDB) /\ WF_vars(ServeInFlight)

\* the connection is closed only by a Shutdown whose HTTP shutdown returned
\* nil: nothing is listening or being served, and no request has run its
\* store calls on the closed connection
ShutdownOrdered ==
    /\ srv.db = "closed" =>
          /\ srv.phase = "done" /\ srv.err = ""
          /\ ~srv.listening /\ srv.inflight = 0
    /\ ~srv.on_closed

\* every shutdown ends: the connection is closed, or Start has returned the
\* error of the HTTP shutdown with the connection still open
ShutdownEnds ==
    (srv.phase = "signaled") ~> (srv.db = "closed" \/ srv.phase = "failed")

\* C30: the database connection is closed only after the HTTP shutdown has
\* returned successfully, so that no request runs on a closed connection,
\* and every shutdown that Start initiates eventually closes the connection.
C30_GracefulShutdown ==
    /\ []ShutdownOrdered
    /\ (srv.phase = "signaled") ~> (srv.db = "closed")

\* a shutdown has gone through while requests were being served: they were
\* waited for, then the connection was closed
C30_Witness ==
    /\ srv.phase = "done" /\ srv.db = "closed"
    /\ srv.left < ShutdownTimeout
    /\ Len(store) > 0
====
